---- MODULE Spec2Model ----
(***************************************************************************)
(* Verification model of the option tokenizer and the options engine       *)
(* (options_helper.cc, options_type.h), of the DBPlugin call-ordering      *)
(* shell (db_plugin.cc), of the cloud storage provider lifecycle, its      *)
(* readable and writable files and GetObject (cloud_storage_provider.cc)   *)
(* and of Logger::Close (env.cc).                                          *)
(*                                                                         *)
(* Strings are sequences of one-character strings.  Positions are 0-based  *)
(* as in the C++ code; std::string::npos is Npos.                          *)
(***************************************************************************)
EXTENDS Integers, Sequences, FiniteSets, TLC

VARIABLES
  lexIn,      \* the option string handed to the tokenizer
  lexOp,      \* last tokenizer call: "none", "NextToken" or "StringToMap"
  lexDelim,   \* delimiter argument of the last NextToken call
  lexStart,   \* start argument of the last NextToken call
  lexRes,     \* result of the last tokenizer call
  plugins,    \* DBOptions::plugins: the registered plugins, in order
  plugOp,     \* last DBPlugin operation, its open mode and its inputs
  plugTrace,  \* the calls made by the last DBPlugin operation, in order
  plugRet,    \* the status returned by the last DBPlugin operation
  wrapped,    \* the DB left in *wrapped by the last DBPlugin::Open
  cloud_opts, \* CloudEnvOptions of the cloud env, with its storage provider
  status_,    \* CloudStorageProviderImpl::status_ of the storage provider
  env_,       \* CloudStorageProviderImpl::env_ of the storage provider
  prepared,   \* history: outcome of the provider's latest PrepareOptions
  provOp,     \* last provider operation and its inputs
  provCalls,  \* the calls made by the last provider operation, in order
  provRet,    \* the status returned by the last provider operation
  cfg,        \* the option record of the Configurable C
  cfgCtx,     \* the ConfigOptions used for the round trip
  cfgPc,      \* position in the round trip
  opt_str,    \* the string produced by C.GetOptionString
  peer,       \* the option record of the peer C'
  cfgStatus,  \* status of the last Configurable operation
  cfgMatches, \* result of C'.Matches(C)
  optCall,    \* last call into the options engine, with its arguments
  optRes,     \* what that call returned and left in its out-parameters
  obj,        \* fields of the file or logger object, and the files it acts on
  objOp,      \* last call on that object: inputs, outcomes, callee trace
  objHist     \* history: what the calls so far have done, per object

lexVars == <<lexIn, lexOp, lexDelim, lexStart, lexRes>>
plugVars == <<plugins, plugOp, plugTrace, plugRet, wrapped>>
provVars == <<cloud_opts, status_, env_, prepared, provOp, provCalls, provRet>>

cfgVars == <<cfg, cfgCtx, cfgPc, opt_str, peer, cfgStatus, cfgMatches>>

optVars == <<optCall, optRes>>

objVars == <<obj, objOp, objHist>>

vars == <<lexVars, plugVars, provVars, cfgVars, optVars, objVars>>

\* what the actions of one component leave alone
notLex == <<plugVars, provVars, cfgVars, optVars, objVars>>
notPlug == <<lexVars, provVars, cfgVars, optVars, objVars>>
notProv == <<lexVars, plugVars, cfgVars, optVars, objVars>>
notCfg == <<lexVars, plugVars, provVars, optVars, objVars>>
notOpt == <<lexVars, plugVars, provVars, cfgVars, objVars>>
notObj == <<lexVars, plugVars, provVars, cfgVars, optVars>>

(***************************************************************************)
(* Bounds                                                                  *)
(***************************************************************************)
MaxLen == 4
MaxPlugins == 3
MaxVec == 2
MaxPairs == 2
Width == 3
MaxSize == 2
MaxLoggers == 2
MaxCloses == 3

(***************************************************************************)
(* Characters and basic string helpers                                     *)
(***************************************************************************)
Chars == {"a", "=", ";", "{", "}", " "}
Delims == {";", ":"}

Npos == -1

OK == "OK"
InvalidArgument == "InvalidArgument"

SetMin(S) == CHOOSE x \in S : \A y \in S : x <= y
SetMax(S) == CHOOSE x \in S : \A y \in S : x >= y

\* a local variable: F applied to the value of v, which is computed once
With(v, F(_)) == CHOOSE r \in {F(x) : x \in {v}} : TRUE

Strings(n) == UNION {[1..k -> Chars] : k \in 0..n}

isspace(c) == c = " "

\* std::string::substr(pos, n): at most n characters starting at pos
Substr(s, pos, n) ==
  IF pos >= Len(s) \/ n <= 0 THEN <<>>
  ELSE SubSeq(s, pos + 1, IF pos + n > Len(s) THEN Len(s) ELSE pos + n)

\* std::string::find(c, pos)
Find(s, c, pos) ==
  LET idx == {i \in pos..(Len(s) - 1) : s[i + 1] = c}
  IN IF idx = {} THEN Npos ELSE SetMin(idx)

\* trim(): strips leading and trailing whitespace
trim(s) ==
  LET idx == {i \in 1..Len(s) : ~isspace(s[i])}
  IN IF idx = {} THEN <<>> ELSE SubSeq(s, SetMin(idx), SetMax(idx))

\* while (pos < opts.size() && isspace(opts[pos])) ++pos;
SkipSpace(opts, pos) ==
  IF pos >= Len(opts) THEN pos
  ELSE SetMin({i \in pos..Len(opts) : i = Len(opts) \/ ~isspace(opts[i + 1])})

(***************************************************************************)
(* OptionTypeInfo::NextToken                                               *)
(***************************************************************************)
\* Variant of the brace-matching loop that does not count nested '{' and so
\* stops at the first '}'.
RECURSIVE BraceScan_Flat(_, _, _)
BraceScan_Flat(opts, brace_pos, count) ==
  IF brace_pos >= Len(opts) THEN [brace_pos |-> brace_pos, count |-> count]
  ELSE IF opts[brace_pos + 1] = "}"
       THEN [brace_pos |-> brace_pos, count |-> 0]
  ELSE BraceScan_Flat(opts, brace_pos + 1, count)

\* the brace-matching loop: returns the loop's final brace_pos and count
RECURSIVE BraceScan(_, _, _)
BraceScan(opts, brace_pos, count) ==
  IF brace_pos >= Len(opts) THEN [brace_pos |-> brace_pos, count |-> count]
  ELSE IF opts[brace_pos + 1] = "{"
       THEN BraceScan(opts, brace_pos + 1, count + 1)
  ELSE IF opts[brace_pos + 1] = "}"
       THEN IF count - 1 = 0
            THEN [brace_pos |-> brace_pos, count |-> 0]
            ELSE BraceScan(opts, brace_pos + 1, count - 1)
  ELSE BraceScan(opts, brace_pos + 1, count)

\* end0 and token0 are the values the out-parameters hold before the call;
\* an error return leaves the out-parameters it did not assign untouched.
NextToken(opts, delimiter, pos0, end0, token0) ==
  LET pos == SkipSpace(opts, pos0)
  IN IF pos >= Len(opts)
     THEN [status |-> OK, end |-> Npos, token |-> <<>>]
     ELSE IF opts[pos + 1] = "{"
     THEN LET sc == BraceScan(opts, pos + 1, 1)
          IN IF sc.count = 0
             THEN LET tok == trim(Substr(opts, pos + 1, sc.brace_pos - pos - 1))
                      p2  == SkipSpace(opts, sc.brace_pos + 1)
                  IN IF p2 < Len(opts) /\ opts[p2 + 1] # delimiter
                     THEN [status |-> InvalidArgument, end |-> end0,
                           token |-> tok]
                     ELSE [status |-> OK, end |-> p2, token |-> tok]
             ELSE [status |-> InvalidArgument, end |-> end0, token |-> token0]
     ELSE LET e == Find(opts, delimiter, pos)
          IN [status |-> OK, end |-> e,
              token |-> IF e = Npos
                        THEN trim(Substr(opts, pos, Len(opts)))
                        ELSE trim(Substr(opts, pos, e - pos))]

(***************************************************************************)
(* StringToMap                                                             *)
(***************************************************************************)
EmptyMap == [k \in {} |-> <<>>]
MapPut(m, k, v) == [x \in (DOMAIN m) \cup {k} |-> IF x = k THEN v ELSE m[x]]

\* the condition of the bracket-stripping loop
StripCond(opts) ==
  Len(opts) > 2 /\ opts[1] = "{" /\ opts[Len(opts)] = "}"

RECURSIVE StripBrackets(_)
StripBrackets(opts) ==
  IF StripCond(opts)
  THEN StripBrackets(trim(Substr(opts, 1, Len(opts) - 2)))
  ELSE opts

\* the key/value loop; opts_map keeps the entries stored before a failure
RECURSIVE PairLoop(_, _, _)
PairLoop(opts, pos, opts_map) ==
  IF pos >= Len(opts) THEN [status |-> OK, map |-> opts_map]
  ELSE LET eq_pos == Find(opts, "=", pos)
       IN IF eq_pos = Npos
          THEN [status |-> InvalidArgument, map |-> opts_map]
          ELSE LET key == trim(Substr(opts, pos, eq_pos - pos))
               IN IF key = <<>>
                  THEN [status |-> InvalidArgument, map |-> opts_map]
                  ELSE LET nt == NextToken(opts, ";", eq_pos + 1, pos, <<>>)
                       IN IF nt.status # OK
                          THEN [status |-> nt.status, map |-> opts_map]
                          ELSE IF nt.end = Npos
                          THEN [status |-> OK,
                                map |-> MapPut(opts_map, key, nt.token)]
                          ELSE PairLoop(opts, nt.end + 1,
                                        MapPut(opts_map, key, nt.token))

StringToMap(opts_str) ==
  PairLoop(StripBrackets(trim(opts_str)), 0, EmptyMap)

(***************************************************************************)
(* Tokenizer state machine: the input is drawn at construction, every      *)
(* call of NextToken / StringToMap is one action.                          *)
(***************************************************************************)
NoRes == [status |-> "none"]

CallNextToken ==
  \E d \in Delims, p \in 0..Len(lexIn) :
    /\ lexOp = "none"
    /\ lexOp' = "NextToken"
    /\ lexDelim' = d
    /\ lexStart' = p
    /\ lexRes' = NextToken(lexIn, d, p, 0, <<>>)
    /\ UNCHANGED lexIn
    /\ UNCHANGED notLex

CallStringToMap ==
  /\ lexOp = "none"
  /\ lexOp' = "StringToMap"
  /\ lexRes' = StringToMap(lexIn)
  /\ UNCHANGED <<lexIn, lexDelim, lexStart>>
  /\ UNCHANGED notLex

LexNext == CallNextToken \/ CallStringToMap

(***************************************************************************)
(* Brace structure of a string, defined by counting and independently of   *)
(* the scanning loop of NextToken.                                         *)
(***************************************************************************)
\* number of '{' minus number of '}' in s[lo..hi] (0-based, inclusive)
BraceBalance(s, lo, hi) ==
  Cardinality({i \in lo..hi : i < Len(s) /\ s[i + 1] = "{"})
    - Cardinality({i \in lo..hi : i < Len(s) /\ s[i + 1] = "}"})

\* position of the '}' that closes the '{' at position j, Npos if there is none
MatchClose(s, j) ==
  LET ks == {k \in (j + 1)..(Len(s) - 1) :
               s[k + 1] = "}" /\ BraceBalance(s, j, k) = 0}
  IN IF ks = {} THEN Npos ELSE SetMin(ks)

\* position i lies inside a brace group that opens at or after position p
Enclosed(s, p, i) ==
  \E j \in p..(i - 1) :
    s[j + 1] = "{" /\ MatchClose(s, j) # Npos /\ MatchClose(s, j) > i

Balanced(t) ==
  /\ \A k \in 0..(Len(t) - 1) : BraceBalance(t, 0, k) >= 0
  /\ BraceBalance(t, 0, Len(t) - 1) = 0

\* the delimiter-separated pairs of an option string: the pieces between
\* the ';' that lie outside every brace group
TopDelims(body) ==
  {i \in 0..(Len(body) - 1) : body[i + 1] = ";" /\ ~Enclosed(body, 0, i)}

Pairs(body) ==
  LET cuts == TopDelims(body) \cup {-1, Len(body)}
  IN {Substr(body, lo + 1, hi - lo - 1) :
        <<lo, hi>> \in {c \in cuts \X cuts :
            c[1] < c[2] /\ ~\E m \in cuts : c[1] < m /\ m < c[2]}}

\* a pair that is not blank and has no '=' or nothing before its '='
BadPair(pair) ==
  /\ trim(pair) # <<>>
  /\ \/ Find(pair, "=", 0) = Npos
     \/ trim(Substr(pair, 0, Find(pair, "=", 0))) = <<>>

SameResult(r1, r2) ==
  /\ r1.status = r2.status
  /\ r1.status = OK => r1.map = r2.map

(***************************************************************************)
(* Claims about the tokenizer                                              *)
(***************************************************************************)

\* C7 (as stated): StringToMap returns InvalidArgument whenever some
\* delimiter-separated pair of the input has an empty key or lacks its '=',
\* whatever the position of the pair.
C7_BadPairRejected ==
  lexOp = "StringToMap" =>
    ((\E pair \in Pairs(StripBrackets(trim(lexIn))) : BadPair(pair))
       => lexRes.status = InvalidArgument)

\* C8 (as stated): StringToMap gives the same result for s, for s inside
\* whitespace and for s inside an outer brace layer, and an outer layer is
\* peeled only when the leading '{' and the trailing '}' match each other.
C8_OuterLayersInsensitive ==
  lexOp = "StringToMap" =>
    /\ SameResult(lexRes, StringToMap(<<" ">> \o lexIn \o <<" ", " ">>))
    /\ SameResult(lexRes, StringToMap(<<"{">> \o lexIn \o <<"}">>))
    /\ SameResult(lexRes, StringToMap(<<"{", " ", "{">> \o lexIn \o <<"}", "}">>))
    /\ StripCond(trim(lexIn))
         => MatchClose(trim(lexIn), 0) = Len(trim(lexIn)) - 1

\* C9 (as stated): no token with unbalanced braces is returned with status
\* OK, neither by NextToken nor as a value of the map built by StringToMap.
C9_UnbalancedRejected ==
  /\ (lexOp = "NextToken" /\ lexRes.status = OK) => Balanced(lexRes.token)
  /\ (lexOp = "StringToMap" /\ lexRes.status = OK)
       => \A k \in DOMAIN lexRes.map : Balanced(lexRes.map[k])

\* C9 (amended): a value that begins with '{' is brace-checked to any
\* nesting depth: when its leading '{' has no matching '}' NextToken returns
\* InvalidArgument, and so does StringToMap when that value is the value of
\* the first pair; every token returned OK for such a value is balanced.
C9_BraceStartedChecked ==
  /\ lexOp = "NextToken" =>
       LET p == SkipSpace(lexIn, lexStart)
       IN (p < Len(lexIn) /\ lexIn[p + 1] = "{") =>
            /\ MatchClose(lexIn, p) = Npos => lexRes.status = InvalidArgument
            /\ lexRes.status = OK => Balanced(lexRes.token)
  /\ lexOp = "StringToMap" =>
       LET body == StripBrackets(trim(lexIn))
           eq == Find(body, "=", 0)
           p == SkipSpace(body, eq + 1)
       IN (/\ eq # Npos
           /\ trim(Substr(body, 0, eq)) # <<>>
           /\ p < Len(body)
           /\ body[p + 1] = "{"
           /\ MatchClose(body, p) = Npos) => lexRes.status = InvalidArgument

\* C9 witness: a nested brace-started value whose leading '{' is never
\* closed has been handed to NextToken and was rejected.
C9_Witness ==
  /\ lexOp = "NextToken"
  /\ lexStart = 0
  /\ Len(lexIn) >= 3
  /\ lexIn[1] = "{" /\ lexIn[2] = "{" /\ lexIn[3] = "}"
  /\ MatchClose(lexIn, 0) = Npos
  /\ lexRes.status = InvalidArgument

\* C10 (as stated): a token returned by NextToken never ends at a delimiter
\* enclosed in a brace group of the value; the returned end is the first
\* delimiter outside all braces, or the input is exhausted.
C10_DelimitersInBracesIgnored ==
  (lexOp = "NextToken" /\ lexRes.status = OK) =>
    LET p == SkipSpace(lexIn, lexStart)
        outside == {i \in p..(Len(lexIn) - 1) :
                      lexIn[i + 1] = lexDelim /\ ~Enclosed(lexIn, p, i)}
    IN /\ lexRes.end \in 0..(Len(lexIn) - 1)
            => /\ lexIn[lexRes.end + 1] = lexDelim
               /\ ~Enclosed(lexIn, p, lexRes.end)
       /\ IF outside = {}
          THEN lexRes.end = Npos \/ lexRes.end >= Len(lexIn)
          ELSE lexRes.end = SetMin(outside)

(***************************************************************************)
(* DBPlugin: the static traversals of DBOptions::plugins.                  *)
(*                                                                         *)
(* A plugin is known by the open modes it supports (SupportsOpenMode).     *)
(* The outcome of each plugin callback is the environment's choice, drawn  *)
(* per operation as a plan: plan[i] is what the callback of plugin i       *)
(* returns if it is invoked.  A status records who produced it.            *)
(***************************************************************************)
OpenModes == {"Normal", "ReadOnly", "Secondary"}
ModeSets == {{"Normal"}, OpenModes}

St(code, src) == [code |-> code, src |-> src]
OKs == St(OK, 0)

\* DBPlugin::NotSupported of plugin i
NotSupported(i) == St("NotSupported", i)

\* status returned by a callback of plugin i under outcome o
CbStatus(o, i) == IF o = "IOError" THEN St("IOError", i) ELSE OKs

Call(cb, i, arg, res) == [cb |-> cb, plugin |-> i, arg |-> arg, res |-> res]

\* Variant of SanitizeOptions that keeps traversing after a failed callback
\* and returns the status of the last callback.
RECURSIVE SanitizeOptions_NoStop(_, _, _, _, _)
SanitizeOptions_NoStop(plugs, open_mode, plan, i, trace) ==
  IF i > Len(plugs)
  THEN [ret |-> IF trace = <<>> THEN OKs ELSE trace[Len(trace)].res,
        trace |-> trace]
  ELSE IF open_mode \in plugs[i].modes
  THEN SanitizeOptions_NoStop(plugs, open_mode, plan, i + 1,
         Append(trace, Call("SanitizeCB", i, open_mode, CbStatus(plan[i], i))))
  ELSE [ret |-> NotSupported(i), trace |-> trace]

\* DBPlugin::SanitizeOptions: the loop from plugin i on
RECURSIVE SanitizeOptions(_, _, _, _, _)
SanitizeOptions(plugs, open_mode, plan, i, trace) ==
  IF i > Len(plugs) THEN [ret |-> OKs, trace |-> trace]
  ELSE IF open_mode \in plugs[i].modes
  THEN LET s == CbStatus(plan[i], i)
           t == Append(trace, Call("SanitizeCB", i, open_mode, s))
       IN IF s # OKs THEN [ret |-> s, trace |-> t]
          ELSE SanitizeOptions(plugs, open_mode, plan, i + 1, t)
  ELSE [ret |-> NotSupported(i), trace |-> trace]

\* the plugin loop of DBPlugin::ValidateOptions, from plugin i on;
\* ret is "fallthrough" when the loop ends without returning
RECURSIVE ValidateLoop(_, _, _, _, _)
ValidateLoop(plugs, open_mode, plan, i, trace) ==
  IF i > Len(plugs) THEN [ret |-> St("fallthrough", 0), trace |-> trace]
  ELSE IF open_mode \in plugs[i].modes
  THEN LET s == CbStatus(plan[i], i)
           t == Append(trace, Call("ValidateCB", i, open_mode, s))
       IN IF s # OKs THEN [ret |-> s, trace |-> t]
          ELSE ValidateLoop(plugs, open_mode, plan, i + 1, t)
  ELSE [ret |-> NotSupported(i), trace |-> trace]

\* DBPlugin::ValidateOptions; table, cfs and impl are the results of
\* ValidateOptionsByTable, of the ColumnFamilyData::ValidateOptions loop and
\* of DBImpl::ValidateOptions
ValidateOptions(plugs, open_mode, plan, table, cfs, impl) ==
  LET t0 == <<Call("ValidateOptionsByTable", 0, open_mode, table)>>
  IN IF table # OKs THEN [ret |-> table, trace |-> t0]
     ELSE LET l == ValidateLoop(plugs, open_mode, plan, 1, t0)
          IN IF l.ret.code # "fallthrough" THEN l
             ELSE LET t1 == Append(l.trace,
                     Call("ColumnFamilyData::ValidateOptions", 0, open_mode, cfs))
                  IN IF cfs # OKs THEN [ret |-> cfs, trace |-> t1]
                     ELSE [ret |-> impl,
                           trace |-> Append(t1,
                              Call("DBImpl::ValidateOptions", 0, open_mode, impl))]

\* A DB is the stack of plugins wrapped around the base DB: <<>> is the base
\* DB, Append(db, i) the StackableDB that plugin i opened over db.
BaseDB == <<>>

\* DBPlugin::OpenCB of plugin i on db: "same" is the default implementation
\* (*wrapped = db), "stack" an override that opens a StackableDB over db,
\* "IOError" an override that fails and leaves *wrapped alone.
OpenCB(o, i, db, cur) ==
  IF o = "same" THEN [s |-> OKs, wrapped |-> db]
  ELSE IF o = "stack" THEN [s |-> OKs, wrapped |-> Append(db, i)]
  ELSE [s |-> St("IOError", i), wrapped |-> cur]

\* Variant of Open that hands the base DB to every OpenCB instead of the DB
\* produced so far.
RECURSIVE Open_FromBase(_, _, _, _, _, _)
Open_FromBase(plugs, open_mode, plan, i, w, trace) ==
  IF i > Len(plugs) THEN [ret |-> OKs, trace |-> trace, wrapped |-> w]
  ELSE IF open_mode \in plugs[i].modes
  THEN LET r == OpenCB(plan[i], i, BaseDB, w)
           t == Append(trace, Call("OpenCB", i, BaseDB, r.s))
       IN IF r.s # OKs THEN [ret |-> r.s, trace |-> t, wrapped |-> r.wrapped]
          ELSE Open_FromBase(plugs, open_mode, plan, i + 1, r.wrapped, t)
  ELSE [ret |-> NotSupported(i), trace |-> trace, wrapped |-> w]

\* DBPlugin::Open: the loop from plugin i on; w is the current *wrapped
RECURSIVE Open(_, _, _, _, _, _)
Open(plugs, open_mode, plan, i, w, trace) ==
  IF i > Len(plugs) THEN [ret |-> OKs, trace |-> trace, wrapped |-> w]
  ELSE IF open_mode \in plugs[i].modes
  THEN LET r == OpenCB(plan[i], i, w, w)
           t == Append(trace, Call("OpenCB", i, w, r.s))
       IN IF r.s # OKs THEN [ret |-> r.s, trace |-> t, wrapped |-> r.wrapped]
          ELSE Open(plugs, open_mode, plan, i + 1, r.wrapped, t)
  ELSE [ret |-> NotSupported(i), trace |-> trace, wrapped |-> w]

\* DBPlugin::RepairDB: the loop from plugin i on
RECURSIVE RepairDB(_, _, _, _)
RepairDB(plugs, plan, i, trace) ==
  IF i > Len(plugs) THEN [ret |-> OKs, trace |-> trace]
  ELSE LET s == CbStatus(plan[i], i)
           t == Append(trace, Call("RepairCB", i, "", s))
       IN IF s # OKs THEN [ret |-> s, trace |-> t]
          ELSE RepairDB(plugs, plan, i + 1, t)

\* DBPlugin::DestroyDB: the loop from plugin i on
RECURSIVE DestroyDB(_, _, _, _)
DestroyDB(plugs, plan, i, trace) ==
  IF i > Len(plugs) THEN [ret |-> OKs, trace |-> trace]
  ELSE LET s == CbStatus(plan[i], i)
           t == Append(trace, Call("DestroyCB", i, "", s))
       IN IF s # OKs THEN [ret |-> s, trace |-> t]
          ELSE DestroyDB(plugs, plan, i + 1, t)

(***************************************************************************)
(* DBPlugin state machine.  The traversals are static functions of their   *)
(* arguments and keep no state between calls, so a behaviour draws a       *)
(* plugin list and makes one call.                                         *)
(***************************************************************************)
NoOp == [op |-> "none"]
NoObj == [kind |-> "none"]

CbPlans == [1..Len(plugins) -> {OK, "IOError"}]
OpenPlans == [1..Len(plugins) -> {"same", "stack", "IOError"}]
ExtResults == {OKs, St("InvalidArgument", 0)}

CallSanitizeOptions ==
  /\ plugOp = NoOp
  /\ \E m \in OpenModes, plan \in CbPlans :
    LET r == SanitizeOptions(plugins, m, plan, 1, <<>>)
    IN /\ plugOp' = [op |-> "SanitizeOptions", mode |-> m, plan |-> plan]
       /\ plugTrace' = r.trace
       /\ plugRet' = r.ret
       /\ UNCHANGED <<plugins, wrapped>>
       /\ UNCHANGED notPlug

CallValidateOptions ==
  /\ plugOp = NoOp
  /\ \E m \in OpenModes, plan \in CbPlans, table \in ExtResults,
     cfs \in ExtResults, impl \in ExtResults :
    LET r == ValidateOptions(plugins, m, plan, table, cfs, impl)
    IN /\ plugOp' = [op |-> "ValidateOptions", mode |-> m, plan |-> plan,
                     table |-> table, cfs |-> cfs, impl |-> impl]
       /\ plugTrace' = r.trace
       /\ plugRet' = r.ret
       /\ UNCHANGED <<plugins, wrapped>>
       /\ UNCHANGED notPlug

CallOpen ==
  /\ plugOp = NoOp
  /\ \E m \in OpenModes, plan \in OpenPlans :
    LET r == Open(plugins, m, plan, 1, BaseDB, <<>>)
    IN /\ plugOp' = [op |-> "Open", mode |-> m, plan |-> plan]
       /\ plugTrace' = r.trace
       /\ plugRet' = r.ret
       /\ wrapped' = r.wrapped
       /\ UNCHANGED plugins
       /\ UNCHANGED notPlug

CallRepairDB ==
  /\ plugOp = NoOp
  /\ \E plan \in CbPlans :
    LET r == RepairDB(plugins, plan, 1, <<>>)
    IN /\ plugOp' = [op |-> "RepairDB", mode |-> "Normal", plan |-> plan]
       /\ plugTrace' = r.trace
       /\ plugRet' = r.ret
       /\ UNCHANGED <<plugins, wrapped>>
       /\ UNCHANGED notPlug

CallDestroyDB ==
  /\ plugOp = NoOp
  /\ \E plan \in CbPlans :
    LET r == DestroyDB(plugins, plan, 1, <<>>)
    IN /\ plugOp' = [op |-> "DestroyDB", mode |-> "Normal", plan |-> plan]
       /\ plugTrace' = r.trace
       /\ plugRet' = r.ret
       /\ UNCHANGED <<plugins, wrapped>>
       /\ UNCHANGED notPlug

PlugNext ==
  \/ CallSanitizeOptions
  \/ CallValidateOptions
  \/ CallOpen
  \/ CallRepairDB
  \/ CallDestroyDB

(***************************************************************************)
(* Claims about DBPlugin                                                   *)
(***************************************************************************)
\* the plugin callbacks invoked by the last operation, in order
CbCalls == LET IsCb(c) == c.plugin # 0 IN SelectSeq(plugTrace, IsCb)

\* plugins at which a traversal in mode m under plan pl cannot continue
Stoppers(m, pl) ==
  {i \in 1..Len(plugins) : m \notin plugins[i].modes \/ pl[i] = "IOError"}

StopStatus(m, f) ==
  IF m \in plugins[f].modes THEN St("IOError", f) ELSE NotSupported(f)

\* number of callbacks invoked when the traversal stops at plugin f
StopCalls(m, f) == IF m \in plugins[f].modes THEN f ELSE f - 1

\* C3 (as stated): constructive operations call the plugins in registration
\* order [0...n]; the destructive operation DestroyDB calls them in the
\* inverse order [n...0].
C3_CallOrder ==
  /\ plugOp.op \in {"SanitizeOptions", "ValidateOptions", "Open"}
       => \A k \in 1..Len(CbCalls) : CbCalls[k].plugin = k
  /\ plugOp.op = "DestroyDB"
       => \A k \in 1..Len(CbCalls) :
            CbCalls[k].plugin = Len(plugins) - k + 1

\* C4: SanitizeOptions and ValidateOptions call the plugins in order and stop
\* at the first plugin that does not support the mode or whose callback
\* fails: its status is returned and no later callback is invoked; OK is
\* returned only if every plugin supports the mode and every callback is OK.
C4_StopAtFirstError ==
  (/\ plugOp.op \in {"SanitizeOptions", "ValidateOptions"}
   /\ plugOp.op = "ValidateOptions" => plugOp.table = OKs)
  => LET m == plugOp.mode
         bad == Stoppers(m, plugOp.plan)
     IN /\ \A k \in 1..Len(CbCalls) : CbCalls[k].plugin = k
        /\ IF bad = {}
           THEN /\ Len(CbCalls) = Len(plugins)
                /\ \A k \in 1..Len(CbCalls) : CbCalls[k].res = OKs
                /\ plugOp.op = "SanitizeOptions" => plugRet = OKs
           ELSE /\ plugRet = StopStatus(m, SetMin(bad))
                /\ Len(CbCalls) = StopCalls(m, SetMin(bad))
        /\ plugRet = OKs => bad = {}

\* C4 witness: SanitizeOptions over three plugins stopped at the failing
\* callback of the second one.
C4_Witness ==
  /\ plugOp.op = "SanitizeOptions"
  /\ Len(plugins) = 3
  /\ plugOp.mode \in plugins[2].modes
  /\ SetMin(Stoppers(plugOp.mode, plugOp.plan) \cup {3}) = 2
  /\ Len(CbCalls) = 2
  /\ plugRet = St("IOError", 2)

\* the DB that the OpenCB call c left in *wrapped
Produced(c) ==
  IF plugOp.plan[c.plugin] = "stack" THEN Append(c.arg, c.plugin) ELSE c.arg

\* C5: Open stacks the plugins: the first OpenCB receives the base DB, each
\* later one the DB produced by its predecessor; on success *wrapped is the
\* DB produced by the last plugin (the base DB without plugins or with
\* default OpenCBs only); the first failing or unsupporting plugin ends the
\* traversal with its error.
C5_OpenStacks ==
  plugOp.op = "Open" =>
    LET m == plugOp.mode
        bad == Stoppers(m, plugOp.plan)
        n == Len(CbCalls)
    IN /\ \A k \in 1..n : CbCalls[k].plugin = k
       /\ n >= 1 => CbCalls[1].arg = BaseDB
       /\ \A k \in 2..n : CbCalls[k].arg = Produced(CbCalls[k - 1])
       /\ plugRet = OKs =>
            /\ n = Len(plugins)
            /\ wrapped = IF n = 0 THEN BaseDB ELSE Produced(CbCalls[n])
            /\ (\A i \in 1..Len(plugins) : plugOp.plan[i] = "same")
                 => wrapped = BaseDB
       /\ bad # {} =>
            /\ plugRet = StopStatus(m, SetMin(bad))
            /\ n = StopCalls(m, SetMin(bad))
       /\ bad = {} => plugRet = OKs

\* C5 witness: Open succeeded over at least two plugins that each opened a
\* StackableDB, the second over the first.
C5_Witness ==
  /\ plugOp.op = "Open"
  /\ plugRet = OKs
  /\ Len(plugins) >= 2
  /\ plugOp.plan[1] = "stack"
  /\ plugOp.plan[2] = "stack"
  /\ SubSeq(wrapped, 1, 2) = <<1, 2>>

(***************************************************************************)
(* CloudStorageProviderImpl: PrepareOptions / ValidateOptions.             *)
(*                                                                         *)
(* The storage provider is the test's DummyStorageProvider: ExistsBucket   *)
(* succeeds iff exists_, CreateBucket succeeds iff create_.  The results   *)
(* of the base class CloudStorageProvider::PrepareOptions / ValidateOptions*)
(* are the environment's choice.                                           *)
(***************************************************************************)
NullEnv == "nullptr"
CloudEnv == "CloudEnv"
NoProvider == [present |-> FALSE, exists_ |-> FALSE, create_ |-> FALSE]
Dummy(e, c) == [present |-> TRUE, exists_ |-> e, create_ |-> c]

\* DummyStorageProvider::ExistsBucket / CreateBucket
ExistsBucket(provider) == IF provider.exists_ THEN OK ELSE "NotSupported"
CreateBucket(provider) == IF provider.create_ THEN OK ELSE "NotSupported"

\* CloudStorageProviderImpl::PrepareOptions(const ConfigOptions&): is_cloud
\* tells whether opts.env casts to a CloudEnv, base is the result of
\* CloudStorageProvider::PrepareOptions; cur_env is env_ before the call.
PrepareOptions(is_cloud, base, cur_env) ==
  IF is_cloud
  THEN [status_ |-> base, env_ |-> CloudEnv, ret |-> base]
  ELSE [status_ |-> InvalidArgument, env_ |-> cur_env,
        ret |-> InvalidArgument]

\* Variant of ValidateOptions without the check of env_.
ValidateOptions_NoEnvCheck(cur_status, cur_env, base) ==
  IF cur_status # OK THEN [ret |-> cur_status, calls |-> <<>>]
  ELSE [ret |-> base, calls |-> <<"CloudStorageProvider::ValidateOptions">>]

\* CloudStorageProviderImpl::ValidateOptions: base is the result of
\* CloudStorageProvider::ValidateOptions
ProviderValidateOptions(cur_status, cur_env, base) ==
  IF cur_status # OK THEN [ret |-> cur_status, calls |-> <<>>]
  ELSE IF cur_env = NullEnv THEN [ret |-> InvalidArgument, calls |-> <<>>]
  ELSE [ret |-> base, calls |-> <<"CloudStorageProvider::ValidateOptions">>]

\* Variant of PrepareOptions(CloudEnv*, ...) that creates a missing bucket
\* without looking at create_bucket_if_missing.
PrepareCloudOptions_AlwaysCreate(copts, base, cur_status, cur_env) ==
  LET pr == PrepareOptions(TRUE, base, cur_env)
      st == [status_ |-> pr.status_, env_ |-> pr.env_]
  IN IF ~copts.storage_provider.present \/ pr.ret # OK \/ ~copts.dest_bucket
     THEN st @@ [ret |-> IF copts.storage_provider.present THEN pr.ret ELSE OK,
                 calls |-> <<>>]
     ELSE IF ExistsBucket(copts.storage_provider) = OK
     THEN st @@ [ret |-> OK, calls |-> <<"PrepareOptions", "ExistsBucket">>]
     ELSE st @@ [ret |-> CreateBucket(copts.storage_provider),
                 calls |-> <<"PrepareOptions", "ExistsBucket", "CreateBucket">>]

\* CloudStorageProviderImpl::PrepareOptions(CloudEnv*, const ConfigOptions&)
PrepareCloudOptions(copts, base, cur_status, cur_env) ==
  LET keep == [status_ |-> cur_status, env_ |-> cur_env]
  IN IF copts.storage_provider.present
     THEN LET pr == PrepareOptions(TRUE, base, cur_env)
              st == [status_ |-> pr.status_, env_ |-> pr.env_]
          IN IF pr.ret # OK
             THEN st @@ [ret |-> pr.ret, calls |-> <<"PrepareOptions">>]
             ELSE IF copts.dest_bucket
             THEN IF ExistsBucket(copts.storage_provider) = OK
                  THEN st @@ [ret |-> pr.ret,
                              calls |-> <<"PrepareOptions", "ExistsBucket">>]
                  ELSE IF copts.create_bucket_if_missing
                  THEN st @@ [ret |-> CreateBucket(copts.storage_provider),
                              calls |-> <<"PrepareOptions", "ExistsBucket",
                                          "CreateBucket">>]
                  ELSE st @@ [ret |-> "NotFound",
                              calls |-> <<"PrepareOptions", "ExistsBucket">>]
             ELSE st @@ [ret |-> pr.ret, calls |-> <<"PrepareOptions">>]
     ELSE IF copts.dest_bucket \/ copts.src_bucket
     THEN keep @@ [ret |-> InvalidArgument, calls |-> <<>>]
     ELSE keep @@ [ret |-> OK, calls |-> <<>>]

(***************************************************************************)
(* Storage provider state machine                                          *)
(***************************************************************************)
BaseResults == {OK, "IOError"}

\* ConfigureFromString on the cloud env: bucket and flag options
ConfigureCloudOptions ==
  \E flag \in BOOLEAN, dest \in BOOLEAN, src \in BOOLEAN :
    /\ cloud_opts' = [cloud_opts EXCEPT !.create_bucket_if_missing = flag,
                                        !.dest_bucket = dest,
                                        !.src_bucket = src]
    /\ provOp' = [op |-> "Configure"]
    /\ provCalls' = <<>>
    /\ provRet' = OK
    /\ UNCHANGED <<status_, env_, prepared>>
    /\ UNCHANGED notProv

\* ConfigureFromString("storage_provider=Dummy:e:c"): a new provider object
SetStorageProvider ==
  \E e \in BOOLEAN, c \in BOOLEAN :
    /\ cloud_opts' = [cloud_opts EXCEPT !.storage_provider = Dummy(e, c)]
    /\ status_' = OK
    /\ env_' = NullEnv
    /\ prepared' = "never"
    /\ provOp' = [op |-> "SetStorageProvider"]
    /\ provCalls' = <<>>
    /\ provRet' = OK
    /\ UNCHANGED notProv

CallPrepareOptions ==
  /\ cloud_opts.storage_provider.present
  /\ \E is_cloud \in BOOLEAN, base \in BaseResults :
       LET r == PrepareOptions(is_cloud, base, env_)
       IN /\ status_' = r.status_
          /\ env_' = r.env_
          /\ prepared' = IF r.ret = OK THEN "ok" ELSE "failed"
          /\ provOp' = [op |-> "PrepareOptions", is_cloud |-> is_cloud,
                        base |-> base]
          /\ provCalls' = <<>>
          /\ provRet' = r.ret
          /\ UNCHANGED cloud_opts
          /\ UNCHANGED notProv

CallProviderValidateOptions ==
  /\ cloud_opts.storage_provider.present
  /\ \E base \in BaseResults :
       LET r == ProviderValidateOptions(status_, env_, base)
       IN /\ provOp' = [op |-> "ValidateOptions", base |-> base]
          /\ provCalls' = r.calls
          /\ provRet' = r.ret
          /\ UNCHANGED <<cloud_opts, status_, env_, prepared>>
          /\ UNCHANGED notProv

CallPrepareCloudOptions ==
  \E base \in BaseResults :
    LET r == PrepareCloudOptions(cloud_opts, base, status_, env_)
    IN /\ status_' = r.status_
       /\ env_' = r.env_
       /\ prepared' = IF ~cloud_opts.storage_provider.present THEN prepared
                      ELSE IF r.status_ = OK THEN "ok" ELSE "failed"
       /\ provOp' = [op |-> "PrepareCloudOptions", base |-> base]
       /\ provCalls' = r.calls
       /\ provRet' = r.ret
       /\ UNCHANGED cloud_opts
       /\ UNCHANGED notProv

ProvNext ==
  \/ ConfigureCloudOptions
  \/ SetStorageProvider
  \/ CallPrepareOptions
  \/ CallProviderValidateOptions
  \/ CallPrepareCloudOptions

(***************************************************************************)
(* Claims about the storage provider                                       *)
(***************************************************************************)
Delegated == provCalls = <<"CloudStorageProvider::ValidateOptions">>

\* C2: ValidateOptions fails whenever PrepareOptions was never called or the
\* latest PrepareOptions failed; in the latter case it returns the status
\* that PrepareOptions stored; it delegates to the base validation only
\* after a PrepareOptions that succeeded.
C2_LifecycleGating ==
  provOp.op = "ValidateOptions" =>
    /\ prepared = "never" => provRet # OK
    /\ prepared = "failed" => (provRet # OK /\ provRet = status_)
    /\ Delegated => prepared = "ok"
    /\ prepared = "ok" => (Delegated /\ provRet = provOp.base)

\* C2 witness: ValidateOptions returned the stored failure of a provider
\* whose env_ had been set by an earlier PrepareOptions.
C2_Witness ==
  /\ provOp.op = "ValidateOptions"
  /\ prepared = "failed"
  /\ env_ = CloudEnv
  /\ status_ = InvalidArgument
  /\ provRet = InvalidArgument

\* C6: with a storage provider and a destination bucket,
\* PrepareOptions(cloud_env, opts) succeeds exactly when the provider's own
\* PrepareOptions succeeds and the bucket exists or create_bucket_if_missing
\* is set and CreateBucket succeeds; CreateBucket is not invoked when the
\* bucket exists or the flag is false; a missing bucket with the flag false
\* yields NotFound.
C6_PrepareCreatesBucket ==
  (/\ provOp.op = "PrepareCloudOptions"
   /\ cloud_opts.storage_provider.present
   /\ cloud_opts.dest_bucket)
  => LET p == cloud_opts.storage_provider
         flag == cloud_opts.create_bucket_if_missing
         created == \E k \in 1..Len(provCalls) : provCalls[k] = "CreateBucket"
     IN /\ provRet = OK <=>
             (provOp.base = OK /\ (p.exists_ \/ (flag /\ p.create_)))
        /\ created => (~p.exists_ /\ flag)
        /\ (provOp.base = OK /\ ~p.exists_ /\ ~flag) => provRet = "NotFound"

\* C6 witness: the bucket was missing, the flag set, and PrepareOptions
\* created the bucket and succeeded.
C6_Witness ==
  /\ provOp.op = "PrepareCloudOptions"
  /\ cloud_opts.storage_provider = Dummy(FALSE, TRUE)
  /\ cloud_opts.dest_bucket
  /\ cloud_opts.create_bucket_if_missing
  /\ provCalls = <<"PrepareOptions", "ExistsBucket", "CreateBucket">>
  /\ provRet = OK

(***************************************************************************)
(* Option values: serialization, parsing and comparison of string, vector  *)
(* and struct options (OptionTypeInfo), and the Configurable round trip    *)
(* GetOptionString -> ConfigureFromString -> Matches.                      *)
(*                                                                         *)
(* The Configurable has one option group with the options                  *)
(*   s : String,  t : Struct "t" with the field x : String,                *)
(*   v : Vector<String> with the separator ':'.                            *)
(***************************************************************************)
SpecialChars == {"=", ";", "{", "}", "#", "\\"}

\* EscapeOptionString: the characters that need escaping in a serialized
\* value (=, ;, {, }, #, the escape character itself, whitespace) get a
\* backslash
RECURSIVE EscapeOptionString(_)
EscapeOptionString(str) ==
  IF str = <<>> THEN <<>>
  ELSE IF Head(str) \in SpecialChars \/ isspace(Head(str))
       THEN <<"\\", Head(str)>> \o EscapeOptionString(Tail(str))
       ELSE <<Head(str)>> \o EscapeOptionString(Tail(str))

\* UnescapeOptionString: a backslash is dropped and the next character kept
RECURSIVE UnescapeOptionString(_)
UnescapeOptionString(str) ==
  IF str = <<>> THEN <<>>
  ELSE IF Head(str) = "\\"
       THEN IF Len(str) = 1 THEN <<>>
            ELSE <<str[2]>> \o UnescapeOptionString(Tail(Tail(str)))
       ELSE <<Head(str)>> \o UnescapeOptionString(Tail(str))

\* ParseOption: opt_value = input_strings_escaped ? Unescape(value) : value
OptValue(ctx, value) ==
  IF ctx.input_strings_escaped THEN UnescapeOptionString(value) ELSE value

\* SerializeSingleOptionHelper, case kString
SerializeString(val) == EscapeOptionString(val)

\* ParseOptionHelper, case kString, reached through ParseOption
ParseString(ctx, value) == OptValue(ctx, value)

(***************************************************************************)
(* OptionTypeInfo: the descriptor of one option.  offset names the place   *)
(* of the value in the record the option belongs to; compare holds the     *)
(* kCompare* bits of the flags, flags the other flag bits.  A struct_map   *)
(* is the sequence of its <<name, descriptor>> entries in the order the    *)
(* unordered_map iterates them.                                            *)
(***************************************************************************)
Info(offset, type, verification, compare, flags) ==
  [offset |-> offset, type |-> type, verification |-> verification,
   compare |-> compare, flags |-> flags, parser_func |-> "nullptr"]

\* OptionTypeInfo::Enum: parser_func looks the value up in the enum's map
Enum(offset) ==
  [offset |-> offset, type |-> "kEnum", verification |-> "kNormal",
   compare |-> "kCompareDefault", flags |-> {}, parser_func |-> "ParseEnum"]

\* OptionTypeInfo::Struct
Struct(struct_name, struct_map, offset, verification, flags) ==
  [offset |-> offset, type |-> "kStruct", verification |-> verification,
   compare |-> "kCompareDefault", flags |-> flags,
   parser_func |-> "ParseStruct",
   struct_name |-> struct_name, struct_map |-> struct_map]

\* OptionTypeInfo::Vector
Vector(offset, verification, flags, elem_info, separator) ==
  [offset |-> offset, type |-> "kVector", verification |-> verification,
   compare |-> "kCompareDefault", flags |-> flags,
   parser_func |-> "ParseVector",
   elem_info |-> elem_info, separator |-> separator]

IsDeprecated(info) == info.verification = "kDeprecated"
IsAlias(info) == info.verification = "kAlias"
IsByName(info) ==
  info.verification \in {"kByName", "kByNameAllowNull", "kByNameAllowFromNull"}
IsStruct(info) == info.type = "kStruct"
IsConfigurable(info) == info.type \in {"kConfigurable", "kCustomizable"}

StartsWith(str, prefix) ==
  Len(str) >= Len(prefix) /\ SubSeq(str, 1, Len(prefix)) = prefix
EndsWith(str, suffix) ==
  /\ Len(str) >= Len(suffix)
  /\ SubSeq(str, Len(str) - Len(suffix) + 1, Len(str)) = suffix

\* unordered_map::find on a descriptor table: the index of the entry, 0 for
\* end()
MapFind(opt_map, name) ==
  IF \E i \in 1..Len(opt_map) : opt_map[i][1] = name
  THEN CHOOSE i \in 1..Len(opt_map) : opt_map[i][1] = name
  ELSE 0

NullInfo == [type |-> "nullptr"]

\* Variant that takes the first entry of the table for any name it holds.
FindOption_First(opt_name, opt_map, elem_name0) ==
  IF MapFind(opt_map, opt_name) # 0
  THEN [info |-> opt_map[1][2], elem_name |-> opt_name]
  ELSE [info |-> NullInfo, elem_name |-> elem_name0]

\* OptionTypeInfo::FindOption: the descriptor (NullInfo for nullptr) and
\* *elem_name, which keeps its old value when nothing is found
FindOption(opt_name, opt_map, elem_name0) ==
  IF MapFind(opt_map, opt_name) # 0
  THEN [info |-> opt_map[MapFind(opt_map, opt_name)][2],
        elem_name |-> opt_name]
  ELSE With(Find(opt_name, ".", 0), LAMBDA idx :
    IF idx > 0 /\ idx # Npos
       /\ MapFind(opt_map, Substr(opt_name, 0, idx)) # 0
       /\ (\/ IsStruct(opt_map[MapFind(opt_map, Substr(opt_name, 0, idx))][2])
           \/ IsConfigurable(
                opt_map[MapFind(opt_map, Substr(opt_name, 0, idx))][2]))
    THEN [info |-> opt_map[MapFind(opt_map, Substr(opt_name, 0, idx))][2],
          elem_name |-> Substr(opt_name, idx + 1, Len(opt_name))]
    ELSE [info |-> NullInfo, elem_name |-> elem_name0])

\* ParseInt: the integer a decimal literal denotes; any other text throws
IntLiterals == {<<"0">>, <<"1">>, <<"2">>}
ParseInt(value) ==
  IF value = <<"0">> THEN 0 ELSE IF value = <<"1">> THEN 1 ELSE 2

\* Configurable::ConfigureFromMap(opts_map, ctx, unused) of a Configurable
\* whose only option group has the kInt options named in names: the keys it
\* does not know are collected in unused; they fail the call unless
\* ctx.ignore_unknown_options.  cur is the option record before the call; it
\* is returned unchanged when the call fails.
ConfigureOptions(names, cur, opts_map, ctx) ==
  With({k \in DOMAIN opts_map : k \notin names}, LAMBDA unknown :
    IF \E k \in DOMAIN opts_map \ unknown : opts_map[k] \notin IntLiterals
    THEN [status |-> InvalidArgument, val |-> cur,
          unused |-> [k \in unknown |-> opts_map[k]]]
    ELSE [status |-> IF unknown # {} /\ ~ctx.ignore_unknown_options
                     THEN InvalidArgument ELSE OK,
          val |-> [n \in DOMAIN cur |->
                     IF <<n>> \in DOMAIN opts_map \ unknown
                     THEN ParseInt(opts_map[<<n>>]) ELSE cur[n]],
          unused |-> [k \in unknown |-> opts_map[k]]])

\* ParseOptionHelper: "true" with the parsed value, "false" when the type is
\* not one of the helper's, "throw" when the text is no value of the type
ParseOptionHelper(opt_type, value) ==
  IF opt_type = "kInt"
  THEN IF value \in IntLiterals
       THEN [res |-> "true", val |-> ParseInt(value)]
       ELSE [res |-> "throw"]
  ELSE IF opt_type = "kString" THEN [res |-> "true", val |-> value]
  ELSE [res |-> "false"]

\* the order in which the keys of an unordered_map<string, string> are
\* visited: the keys that order lists, in that order; Other stands for the
\* keys it does not list
Other == <<>>
RECURSIVE SeqOf(_)
SeqOf(S) ==
  IF S = {} THEN <<>>
  ELSE With(CHOOSE x \in S : TRUE, LAMBDA x : <<x>> \o SeqOf(S \ {x}))

RECURSIVE Iteration(_, _, _)
Iteration(keys, order, i) ==
  IF i > Len(order)
  THEN IF \E n \in 1..Len(order) : order[n] = Other THEN <<>>
       ELSE SeqOf(keys \ {order[n] : n \in 1..Len(order)})
  ELSE (IF order[i] = Other
        THEN SeqOf(keys \ {order[n] : n \in 1..Len(order)})
        ELSE IF order[i] \in keys THEN <<order[i]>> ELSE <<>>)
       \o Iteration(keys, order, i + 1)

NoCall == [called |-> FALSE]
NullConfig == [isnull |-> TRUE]

RECURSIVE ParseOption(_, _, _, _, _, _)
RECURSIVE ParseStruct(_, _, _, _, _, _, _)
RECURSIVE ParseVector(_, _, _, _, _, _, _)

\* the loop of ParseStruct over the entries of opt_map, from the i-th on
RECURSIVE StructLoop(_, _, _, _, _, _, _, _)
StructLoop(struct_name, struct_map, keys, i, opt_map, options, res, order) ==
  IF i > Len(keys) THEN res
  ELSE IF MapFind(struct_map, keys[i]) # 0
  THEN With(ParseOption(struct_map[MapFind(struct_map, keys[i])][2], keys[i],
                        opt_map[keys[i]], options, res.val, order),
            LAMBDA r :
         StructLoop(struct_name, struct_map, keys, i + 1, opt_map, options,
                    [status |-> r.status, val |-> r.val], order))
  ELSE [status |-> InvalidArgument, val |-> res.val]

\* OptionTypeInfo::ParseStruct; opt_addr is the struct before the call, val
\* the struct after it
ParseStruct(struct_name, struct_map, opt_name, opt_value, options, opt_addr, order) ==
  IF opt_name = struct_name \/ EndsWith(opt_name, <<".">> \o struct_name)
  THEN With(StringToMap(opt_value), LAMBDA m :
         IF m.status # OK THEN [status |-> m.status, val |-> opt_addr]
         ELSE StructLoop(struct_name, struct_map,
                         Iteration(DOMAIN m.map, order, 1), 1, m.map, options,
                         [status |-> OK, val |-> opt_addr], order))
  ELSE With(IF StartsWith(opt_name, struct_name \o <<".">>)
            THEN FindOption(Substr(opt_name, Len(struct_name) + 1,
                                   Len(opt_name)), struct_map, <<>>)
            ELSE FindOption(opt_name, struct_map, <<>>), LAMBDA f :
         IF f.info # NullInfo
         THEN With(ParseOption(f.info, f.elem_name, opt_value, options,
                               opt_addr, order), LAMBDA r :
                [status |-> r.status, val |-> r.val])
         ELSE [status |-> InvalidArgument, val |-> opt_addr])

\* ParseVector: the token loop from start on; every token goes through
\* ParseOption of the element descriptor on a fresh element, under a copy of
\* the context whose ignore_unknown_objects is off
RECURSIVE ParseElems(_, _, _, _, _, _, _, _)
ParseElems(elem_info, separator, name, value, opts, start, res, order) ==
  IF ~(res.status = OK /\ start < Len(value) /\ res.end # Npos) THEN res
  ELSE With(NextToken(value, separator, start, res.end, <<>>), LAMBDA nt :
    IF nt.status # OK
    THEN [status |-> nt.status, val |-> res.val, end |-> nt.end]
    ELSE With(ParseOption(elem_info, name, nt.token,
                [opts EXCEPT !.ignore_unknown_objects = FALSE],
                [o \in {elem_info.offset} |->
                   IF elem_info.type = "kInt" THEN 0 ELSE <<>>], order),
              LAMBDA e :
      ParseElems(elem_info, separator, name, value, opts, nt.end + 1,
        [status |-> IF opts.ignore_unknown_objects
                       /\ e.status = "NotSupported"
                    THEN OK ELSE e.status,
         val |-> IF e.status = OK
                 THEN Append(res.val, e.val[elem_info.offset])
                 ELSE res.val,
         end |-> nt.end], order)))

\* Variant without result->clear(): the elements are added to the old ones.
ParseVector_Append(elem_info, separator, name, value, opts, result, order) ==
  With(ParseElems(elem_info, separator, name, value, opts, 0,
                  [status |-> OK, val |-> result, end |-> 0], order),
       LAMBDA r : [status |-> r.status, val |-> r.val])

\* result->clear(), then the loop
ParseVector(elem_info, separator, name, value, opts, result, order) ==
  With(ParseElems(elem_info, separator, name, value, opts, 0,
                  [status |-> OK, val |-> <<>>, end |-> 0], order),
       LAMBDA r : [status |-> r.status, val |-> r.val])

\* the recursive configure call ParseOption makes on a Configurable child
\* with one kInt option k: ConfigureFromString for a value holding '=',
\* ConfigureOption for any other
ChildNames == {<<"k">>}
ConfigureChild(config, opt_name, opt_value, options) ==
  IF Find(opt_value, "=", 0) # Npos
  THEN With(StringToMap(opt_value), LAMBDA m :
         IF m.status # OK THEN [status |-> m.status, val |-> config]
         ELSE ConfigureOptions(ChildNames, config, m.map,
                [options EXCEPT !.ignore_unknown_options = FALSE]))
  ELSE ConfigureOptions(ChildNames, config,
         [n \in {opt_name} |-> opt_value], options)

\* OptionTypeInfo::AsCustomS: a Customizable held by shared_ptr whose
\* parser_func is T::CreateFromString on the slot of the option
AsCustomS(offset, ovt, flags) ==
  [offset |-> offset, type |-> "kCustomizable", verification |-> ovt,
   compare |-> "kCompareDefault", flags |-> flags \cup {"kShared"},
   parser_func |-> "CreateFromString"]

\* the ids RegisterTestProviderOptions registers: Dummy:<exists>:<create>
BoolText(b) == IF b THEN <<"t", "r", "u", "e">> ELSE <<"f", "a", "l", "s", "e">>
DummyId(e, c) == <<"D", "u", "m", "m", "y", ":">> \o BoolText(e) \o <<":">> \o BoolText(c)
DummyIds == {DummyId(e, c) : e \in BOOLEAN, c \in BOOLEAN}

\* new DummyStorageProvider(e, c): status_ and env_ as constructed
NewDummy(e, c) == [exists_ |-> e, create_ |-> c, status_ |-> OK, env_ |-> NullEnv]

\* the factory registered for the id: guard->reset(new DummyStorageProvider)
ProviderFactory(id) ==
  CHOOSE o \in {NewDummy(e, c) : e \in BOOLEAN, c \in BOOLEAN} :
    id = DummyId(o.exists_, o.create_)

\* LoadSharedObject<T>(value, nullptr, opts, result): the value is an id or
\* an option block with an id; the object the registry makes for the id
\* replaces the one in the slot, then the other keys are applied to it (a
\* DummyStorageProvider has no options of its own).  events lists what was
\* done to the old and the new child, in order.
LoadSharedObject(value, opts, result) ==
  With(IF Find(value, "=", 0) = Npos
       THEN [status |-> OK, map |-> [k \in {<<"i", "d">>} |-> value]]
       ELSE StringToMap(value), LAMBDA m :
    IF m.status # OK
    THEN [status |-> m.status, val |-> result, events |-> <<>>]
    ELSE IF <<"i", "d">> \notin DOMAIN m.map \/ m.map[<<"i", "d">>] \notin DummyIds
    THEN IF opts.ignore_unknown_objects
         THEN [status |-> OK, val |-> NullConfig,
               events |-> IF result = NullConfig THEN <<>> ELSE <<"drop">>]
         ELSE [status |-> "NotFound", val |-> result, events |-> <<>>]
    ELSE [status |-> IF DOMAIN m.map = {<<"i", "d">>} \/ opts.ignore_unknown_options
                     THEN OK ELSE InvalidArgument,
          val |-> ProviderFactory(m.map[<<"i", "d">>]),
          events |-> <<"create">>
                     \o (IF result = NullConfig THEN <<>> ELSE <<"drop">>)
                     \o (IF DOMAIN m.map = {<<"i", "d">>} THEN <<>>
                         ELSE <<"configure">>)])

\* Variant that keeps a child already in the slot.
CreateFromString_Keep(value, opts, result) ==
  IF result # NullConfig THEN [status |-> OK, val |-> result, events |-> <<>>]
  ELSE LoadSharedObject(value, opts, result)

\* CloudStorageProvider::CreateFromString
CreateFromString(value, opts, result) == LoadSharedObject(value, opts, result)

\* OptionTypeInfo::ParseOption; opt_ptr is the record that holds the option
\* before the call, val the record after it, sub the context handed to the
\* recursive call it made (parser_func or the Configurable child)
ParseOption(info, opt_name, value, options, opt_ptr, order) ==
  IF IsDeprecated(info)
  THEN [status |-> OK, val |-> opt_ptr, sub |-> NoCall]
  ELSE With(OptValue(options, value), LAMBDA opt_value :
    IF info.parser_func # "nullptr"
    THEN With(IF "kDontPrepare" \in info.flags
              THEN [options EXCEPT !.invoke_prepare_options = FALSE]
              ELSE options, LAMBDA copy :
      With(IF info.parser_func = "ParseStruct"
           THEN ParseStruct(info.struct_name, info.struct_map, opt_name,
                            opt_value, copy, opt_ptr[info.offset], order)
           ELSE IF info.parser_func = "ParseVector"
           THEN ParseVector(info.elem_info, info.separator, opt_name,
                            opt_value, copy, opt_ptr[info.offset], order)
           ELSE IF info.parser_func = "CreateFromString"
           THEN CreateFromString(opt_value, copy, opt_ptr[info.offset])
           ELSE IF opt_value \in IntLiterals
           THEN [status |-> OK, val |-> ParseInt(opt_value)]
           ELSE [status |-> InvalidArgument, val |-> opt_ptr[info.offset]],
           LAMBDA r :
        [status |-> r.status,
         val |-> [opt_ptr EXCEPT ![info.offset] = r.val],
         sub |-> [called |-> TRUE, callee |-> "parser_func",
                  options |-> copy]]))
    ELSE With(ParseOptionHelper(info.type, opt_value), LAMBDA h :
      IF h.res = "true"
      THEN [status |-> OK, val |-> [opt_ptr EXCEPT ![info.offset] = h.val],
            sub |-> NoCall]
      ELSE IF h.res = "throw"
      THEN [status |-> InvalidArgument, val |-> opt_ptr, sub |-> NoCall]
      ELSE IF IsConfigurable(info)
      THEN IF opt_value = <<>>
           THEN [status |-> OK, val |-> opt_ptr, sub |-> NoCall]
           ELSE IF opt_ptr[info.offset] = NullConfig
           THEN [status |-> "NotFound", val |-> opt_ptr, sub |-> NoCall]
           ELSE With(ConfigureChild(opt_ptr[info.offset], opt_name,
                                    opt_value, options), LAMBDA r :
             [status |-> r.status,
              val |-> [opt_ptr EXCEPT ![info.offset] = r.val],
              sub |-> [called |-> TRUE,
                       callee |-> IF Find(opt_value, "=", 0) # Npos
                                  THEN "ConfigureFromString"
                                  ELSE "ConfigureOption",
                       options |-> IF Find(opt_value, "=", 0) # Npos
                                   THEN [options EXCEPT
                                           !.ignore_unknown_options = FALSE]
                                   ELSE options]])
      ELSE IF IsByName(info)
      THEN [status |-> "NotSupported", val |-> opt_ptr, sub |-> NoCall]
      ELSE [status |-> InvalidArgument, val |-> opt_ptr, sub |-> NoCall]))

(***************************************************************************)
(* Serialization                                                           *)
(***************************************************************************)
\* ToString(int)
IntToString(n) == IF n = 0 THEN <<"0">> ELSE IF n = 1 THEN <<"1">> ELSE <<"2">>

\* ConfigOptions::Embedded
Embedded(options) == [options EXCEPT !.delimiter = ";"]

\* OptionTypeInfo::ShouldSerialize
ShouldSerialize(info) ==
  IF IsDeprecated(info) \/ IsAlias(info) THEN FALSE
  ELSE IF "kStringNone" \in info.flags THEN FALSE
  ELSE TRUE

\* SerializeSingleOptionHelper: "true" with the text, "false" when the type
\* is not one of the helper's
SerializeSingleOptionHelper(opt_type, val) ==
  IF opt_type = "kInt" THEN [res |-> "true", value |-> IntToString(val)]
  ELSE IF opt_type = "kString"
  THEN [res |-> "true", value |-> SerializeString(val)]
  ELSE [res |-> "false"]

\* Configurable::ToString of the Configurable child
ChildToString(config, options) ==
  <<"k", "=">> \o IntToString(config.k) \o <<options.delimiter>>

RECURSIVE SerializeOption(_, _, _, _, _)
RECURSIVE SerializeStruct(_, _, _, _, _, _)
RECURSIVE SerializeVector(_, _, _, _, _)

\* SerializeVector: the element loop from element i on
RECURSIVE SerializeElems(_, _, _, _, _, _)
SerializeElems(elem_info, separator, name, vec, embedded, res) ==
  IF res.i > Len(vec) THEN res
  ELSE With(SerializeOption(elem_info, name,
              [o \in {elem_info.offset} |-> vec[res.i]], embedded, <<>>),
            LAMBDA e :
    IF e.status # OK
    THEN [status |-> e.status, value |-> res.value, i |-> res.i]
    ELSE SerializeElems(elem_info, separator, name, vec, embedded,
           [status |-> OK,
            value |-> (IF res.i > 1 THEN res.value \o <<separator>>
                       ELSE res.value) \o e.value,
            i |-> res.i + 1]))

\* value0 is *value before the call
SerializeVector(elem_info, separator, name, vec, opts) ==
  With(SerializeElems(elem_info, separator, name, vec, Embedded(opts),
                      [status |-> OK, value |-> <<>>, i |-> 1]), LAMBDA r :
    IF r.status # OK THEN [status |-> r.status, failed |-> TRUE]
    ELSE [status |-> OK, failed |-> FALSE,
          value |-> IF Find(r.value, "=", 0) # Npos
                    THEN <<"{">> \o r.value \o <<"}">>
                    ELSE r.value])

\* the loop of SerializeStruct over the entries of struct_map, from the
\* i-th on
RECURSIVE SerializeFields(_, _, _, _, _)
SerializeFields(struct_map, i, opt_addr, embedded, result) ==
  IF i > Len(struct_map) THEN [status |-> OK, result |-> result]
  ELSE IF ShouldSerialize(struct_map[i][2])
  THEN With(SerializeOption(struct_map[i][2], struct_map[i][1], opt_addr,
                            embedded, <<>>), LAMBDA r :
         IF r.status # OK THEN [status |-> r.status, result |-> result]
         ELSE SerializeFields(struct_map, i + 1, opt_addr, embedded,
                result \o struct_map[i][1] \o <<"=">> \o r.value
                       \o <<embedded.delimiter>>))
  ELSE SerializeFields(struct_map, i + 1, opt_addr, embedded, result)

\* OptionTypeInfo::SerializeStruct; value0 is *value before the call
SerializeStruct(struct_name, struct_map, opt_name, opt_addr, opts, value0) ==
  IF EndsWith(opt_name, struct_name)
  THEN With(SerializeFields(struct_map, 1, opt_addr, Embedded(opts), <<>>),
            LAMBDA r :
         IF r.status # OK THEN [status |-> r.status, value |-> value0]
         ELSE [status |-> OK, value |-> <<"{">> \o r.result \o <<"}">>])
  ELSE IF StartsWith(opt_name, struct_name \o <<".">>)
  THEN With(FindOption(Substr(opt_name, Len(struct_name) + 1,
                              Len(opt_name)), struct_map, <<>>), LAMBDA f :
         IF f.info # NullInfo
         THEN SerializeOption(f.info, f.elem_name, opt_addr, opts, value0)
         ELSE [status |-> InvalidArgument, value |-> value0])
  ELSE With(FindOption(opt_name, struct_map, <<>>), LAMBDA f :
         IF f.info = NullInfo
         THEN [status |-> InvalidArgument, value |-> value0]
         ELSE IF ShouldSerialize(f.info)
         THEN SerializeOption(f.info, opt_name \o <<".">> \o f.elem_name,
                              opt_addr, opts, value0)
         ELSE [status |-> OK, value |-> value0])

\* OptionTypeInfo::SerializeOption; opt_ptr is the record that holds the
\* option, value0 is *opt_value before the call
SerializeOption(info, opt_name, opt_ptr, options, value0) ==
  IF IsDeprecated(info) THEN [status |-> OK, value |-> value0]
  ELSE IF "kStringNone" \in info.flags
  THEN [status |-> "NotSupported", value |-> value0]
  ELSE IF info.parser_func = "ParseStruct"
  THEN SerializeStruct(info.struct_name, info.struct_map, opt_name,
                       opt_ptr[info.offset], options, value0)
  ELSE IF info.parser_func = "ParseVector"
  THEN With(SerializeVector(info.elem_info, info.separator, opt_name,
                            opt_ptr[info.offset], options), LAMBDA r :
         IF r.failed THEN [status |-> r.status, value |-> value0]
         ELSE [status |-> OK, value |-> r.value])
  ELSE IF info.parser_func = "ParseEnum"
  THEN [status |-> OK, value |-> IntToString(opt_ptr[info.offset])]
  ELSE With(SerializeSingleOptionHelper(info.type, opt_ptr[info.offset]),
            LAMBDA h :
    IF h.res = "true" THEN [status |-> OK, value |-> h.value]
    ELSE IF IsConfigurable(info)
    THEN IF opt_ptr[info.offset] = NullConfig
         THEN [status |-> OK,
               value |-> IF info.type = "kCustomizable"
                         THEN <<"n", "u", "l", "l", "p", "t", "r">>
                         ELSE value0]
         ELSE [status |-> OK,
               value |-> ChildToString(opt_ptr[info.offset],
                                       Embedded(options))]
    ELSE [status |-> InvalidArgument, value |-> value0])

(***************************************************************************)
(* Comparison                                                              *)
(***************************************************************************)
\* ConfigOptions::SanityLevel, in increasing strictness
kSanityLevelNone == 1
kSanityLevelLooselyCompatible == 2
kSanityLevelExactMatch == 3

\* Variant that compares every live option at the exact level.
GetSanityLevel_Exact(info) ==
  IF IsDeprecated(info) \/ IsAlias(info) THEN kSanityLevelNone
  ELSE kSanityLevelExactMatch

\* OptionTypeInfo::GetSanityLevel
GetSanityLevel(info) ==
  IF IsDeprecated(info) \/ IsAlias(info) THEN kSanityLevelNone
  ELSE IF info.compare = "kCompareDefault" THEN kSanityLevelExactMatch
  ELSE IF info.compare = "kCompareNever" THEN kSanityLevelNone
  ELSE IF info.compare = "kCompareLoose" THEN kSanityLevelLooselyCompatible
  ELSE kSanityLevelExactMatch

\* ConfigOptions::IsCheckEnabled: the level is compared only when it does
\* not exceed the level of the context
IsCheckEnabled(options, level) ==
  level > kSanityLevelNone /\ level <= options.sanity_level

\* AreOptionsEqual
AreOptionsEqual(type, this_val, that_val) ==
  IF type \in {"kInt", "kString"} THEN this_val = that_val ELSE FALSE

\* Configurable::Matches of the Configurable child, with its bad_name
ChildMatches(this_config, that_config, options) ==
  IF IsCheckEnabled(options, kSanityLevelExactMatch)
     /\ this_config.k # that_config.k
  THEN [matches |-> FALSE, mismatch |-> <<"k">>]
  ELSE [matches |-> TRUE, mismatch |-> <<>>]

RECURSIVE MatchesOption(_, _, _, _, _, _)
RECURSIVE MatchesStruct(_, _, _, _, _, _, _)

\* MatchesVector: the element loop from element i on
RECURSIVE MatchesElems(_, _, _, _, _, _, _)
MatchesElems(elem_info, name, vec1, vec2, opts, i, mismatch) ==
  IF i > Len(vec1) THEN [matches |-> TRUE, mismatch |-> mismatch]
  ELSE With(MatchesOption(elem_info, name,
              [o \in {elem_info.offset} |-> vec1[i]],
              [o \in {elem_info.offset} |-> vec2[i]], opts, mismatch),
            LAMBDA r :
    IF ~r.matches THEN r
    ELSE MatchesElems(elem_info, name, vec1, vec2, opts, i + 1, r.mismatch))

\* mismatch0 is *mismatch before the call
MatchesVector(elem_info, name, vec1, vec2, opts, mismatch0) ==
  IF Len(vec1) # Len(vec2) THEN [matches |-> FALSE, mismatch |-> name]
  ELSE MatchesElems(elem_info, name, vec1, vec2, opts, 1, mismatch0)

\* the loop of MatchesStruct over the entries of struct_map, from the i-th
\* on; result is the local string the loop hands to MatchesOption
RECURSIVE MatchesFields(_, _, _, _, _, _, _, _)
MatchesFields(struct_name, struct_map, i, this_offset, that_offset, opts, result, mismatch0) ==
  IF i > Len(struct_map) THEN [matches |-> TRUE, mismatch |-> mismatch0]
  ELSE With(MatchesOption(struct_map[i][2], struct_map[i][1], this_offset,
                          that_offset, opts, result), LAMBDA r :
    IF ~r.matches
    THEN [matches |-> FALSE,
          mismatch |-> struct_name \o <<".">> \o r.mismatch]
    ELSE MatchesFields(struct_name, struct_map, i + 1, this_offset,
                       that_offset, opts, r.mismatch, mismatch0))

\* OptionTypeInfo::MatchesStruct; mismatch0 is *mismatch before the call
MatchesStruct(struct_name, struct_map, opt_name, this_offset, that_offset, opts, mismatch0) ==
  IF EndsWith(opt_name, struct_name)
  THEN MatchesFields(struct_name, struct_map, 1, this_offset, that_offset,
                     opts, <<>>, mismatch0)
  ELSE With(IF StartsWith(opt_name, struct_name \o <<".">>)
            THEN FindOption(Substr(opt_name, Len(struct_name) + 1,
                                   Len(opt_name)), struct_map, <<>>)
            ELSE FindOption(opt_name, struct_map, <<>>), LAMBDA f :
    IF f.info = NullInfo
    THEN [matches |-> FALSE,
          mismatch |-> IF StartsWith(opt_name, struct_name \o <<".">>)
                       THEN opt_name
                       ELSE struct_name \o <<".">> \o opt_name]
    ELSE With(MatchesOption(f.info, f.elem_name, this_offset, that_offset,
                            opts, <<>>), LAMBDA r :
      IF ~r.matches
      THEN [matches |-> FALSE,
            mismatch |-> struct_name \o <<".">> \o r.mismatch]
      ELSE [matches |-> TRUE, mismatch |-> mismatch0]))

\* the tail of MatchesOption: if (mismatch->empty()) *mismatch = opt_name
Mismatched(opt_name, mismatch) ==
  [matches |-> FALSE,
   mismatch |-> IF mismatch = <<>> THEN opt_name ELSE mismatch]

\* OptionTypeInfo::MatchesOption; this_ptr and that_ptr are the records that
\* hold the option, mismatch0 is *mismatch before the call
MatchesOption(info, opt_name, this_ptr, that_ptr, options, mismatch0) ==
  IF ~IsCheckEnabled(options, GetSanityLevel(info))
  THEN [matches |-> TRUE, mismatch |-> mismatch0]
  ELSE IF info.parser_func # "nullptr"
  THEN With(IF info.parser_func = "ParseStruct"
            THEN MatchesStruct(info.struct_name, info.struct_map, opt_name,
                               this_ptr[info.offset], that_ptr[info.offset],
                               options, mismatch0)
            ELSE IF info.parser_func = "ParseVector"
            THEN MatchesVector(info.elem_info, opt_name,
                               this_ptr[info.offset], that_ptr[info.offset],
                               options, mismatch0)
            ELSE [matches |-> this_ptr[info.offset] = that_ptr[info.offset],
                  mismatch |-> mismatch0], LAMBDA r :
         IF r.matches THEN r ELSE Mismatched(opt_name, r.mismatch))
  ELSE IF AreOptionsEqual(info.type, this_ptr[info.offset],
                          that_ptr[info.offset])
  THEN [matches |-> TRUE, mismatch |-> mismatch0]
  ELSE IF IsConfigurable(info)
  THEN IF this_ptr[info.offset] = NullConfig
          /\ that_ptr[info.offset] = NullConfig
       THEN [matches |-> TRUE, mismatch |-> mismatch0]
       ELSE IF this_ptr[info.offset] # NullConfig
               /\ that_ptr[info.offset] # NullConfig
       THEN With(ChildMatches(this_ptr[info.offset], that_ptr[info.offset],
                   IF GetSanityLevel(info) < options.sanity_level
                   THEN [options EXCEPT !.sanity_level = GetSanityLevel(info)]
                   ELSE options), LAMBDA r :
              IF ~r.matches
              THEN [matches |-> FALSE,
                    mismatch |-> opt_name \o <<".">> \o r.mismatch]
              ELSE [matches |-> TRUE, mismatch |-> mismatch0])
       ELSE Mismatched(opt_name, mismatch0)
  ELSE Mismatched(opt_name, mismatch0)

\* OptionTypeInfo::CheckByName(opt_name, opt_ptr, that_value, options)
CheckByNameValue(info, opt_name, opt_ptr, that_value, options) ==
  IF ~IsByName(info) THEN FALSE
  ELSE With(SerializeOption(info, opt_name, opt_ptr, options, <<>>),
            LAMBDA r :
    IF r.status # OK THEN FALSE
    ELSE IF info.verification \in {"kByNameAllowFromNull", "kByNameAllowNull"}
            /\ that_value = <<"n", "u", "l", "l", "p", "t", "r">>
    THEN TRUE
    ELSE r.value = that_value)

\* OptionTypeInfo::CheckByName(opt_name, this_ptr, that_ptr, options)
CheckByName(info, opt_name, this_ptr, that_ptr, options) ==
  IF IsByName(info)
  THEN With(SerializeOption(info, opt_name, that_ptr, options, <<>>),
            LAMBDA r :
         IF r.status = OK
         THEN CheckByNameValue(info, opt_name, this_ptr, r.value, options)
         ELSE FALSE)
  ELSE FALSE

\* the loop of MatchesOptionsTypeFromMap over the entries of type_map, from
\* the i-th on
RECURSIVE MatchesTypes(_, _, _, _, _, _)
MatchesTypes(type_map, i, this_ptr, that_ptr, options, mismatch) ==
  IF i > Len(type_map) THEN [matches |-> TRUE, mismatch |-> mismatch]
  ELSE IF IsCheckEnabled(options, GetSanityLevel(type_map[i][2]))
  THEN With(MatchesOption(type_map[i][2], type_map[i][1], this_ptr,
                          that_ptr, options, mismatch), LAMBDA r :
         IF ~r.matches
            /\ ~CheckByName(type_map[i][2], type_map[i][1], this_ptr,
                            that_ptr, options)
         THEN [matches |-> FALSE, mismatch |-> r.mismatch]
         ELSE MatchesTypes(type_map, i + 1, this_ptr, that_ptr, options,
                           r.mismatch))
  ELSE MatchesTypes(type_map, i + 1, this_ptr, that_ptr, options, mismatch)

\* MatchesOptionsTypeFromMap; mismatch0 is *mismatch before the call
MatchesOptionsTypeFromMap(type_map, this_ptr, that_ptr, options, mismatch0) ==
  MatchesTypes(type_map, 1, this_ptr, that_ptr, options, mismatch0)

(***************************************************************************)
(* The Configurable of the round trip: its options s, t and v              *)
(***************************************************************************)
SInfo == Info("s", "kString", "kNormal", "kCompareDefault", {})
TInfo ==
  Struct(<<"t">>,
         << << <<"x">>, Info("x", "kString", "kNormal", "kCompareDefault",
                             {}) >> >>,
         "t", "kNormal", {})
VInfo ==
  Vector("v", "kNormal", {},
         Info("0", "kString", "kNormal", "kCompareDefault", {}), ":")

\* Configurable::GetOptionString: name=value of every option, each followed
\* by the delimiter of the context
GetOptionString(c, ctx) ==
  <<"s", "=">> \o SerializeOption(SInfo, <<"s">>, c, ctx, <<>>).value
    \o <<ctx.delimiter>>
    \o <<"t", "=">> \o SerializeOption(TInfo, <<"t">>, c, ctx, <<>>).value
    \o <<ctx.delimiter>>
    \o <<"v", "=">> \o SerializeOption(VInfo, <<"v">>, c, ctx, <<>>).value
    \o <<ctx.delimiter>>

OptionNames == {<<"s">>, <<"t">>, <<"v">>}

\* ConfigureFromMap: every key of the map is applied with ParseOption; a key
\* that names no option or a failed ParseOption fails the call.  x_first
\* tells whether the field x of t is visited before a key t does not have.
ConfigureFromMap(c, opts_map, ctx, x_first) ==
  With(IF <<"t">> \in DOMAIN opts_map
       THEN ParseOption(TInfo, <<"t">>, opts_map[<<"t">>], ctx, c,
                        IF x_first THEN << <<"x">>, Other >>
                        ELSE << Other, <<"x">> >>)
       ELSE [status |-> OK, val |-> c], LAMBDA t :
  With(IF <<"v">> \in DOMAIN opts_map
       THEN ParseOption(VInfo, <<"v">>, opts_map[<<"v">>], ctx, t.val, <<>>)
       ELSE [status |-> OK, val |-> t.val], LAMBDA v :
  With(IF <<"s">> \in DOMAIN opts_map
       THEN ParseOption(SInfo, <<"s">>, opts_map[<<"s">>], ctx, v.val, <<>>)
       ELSE [status |-> OK, val |-> v.val], LAMBDA sv :
    [status |-> IF \E k \in DOMAIN opts_map : k \notin OptionNames
                THEN InvalidArgument
                ELSE IF t.status # OK THEN t.status
                ELSE IF v.status # OK THEN v.status
                ELSE sv.status,
     val |-> sv.val])))

\* Configurable::ConfigureFromString: StringToMap, then ConfigureFromMap
ConfigureFromString(c, str, ctx, x_first) ==
  With(StringToMap(str), LAMBDA m :
    IF m.status # OK THEN [status |-> m.status, val |-> c]
    ELSE ConfigureFromMap(c, m.map, ctx, x_first))

\* Configurable::Matches: every option matches
Matches(c1, c2, ctx) ==
  /\ MatchesOption(SInfo, <<"s">>, c1, c2, ctx, <<>>).matches
  /\ MatchesOption(TInfo, <<"t">>, c1, c2, ctx, <<>>).matches
  /\ MatchesOption(VInfo, <<"v">>, c1, c2, ctx, <<>>).matches

(***************************************************************************)
(* Round-trip state machine                                                *)
(***************************************************************************)
StrVals == {<<>>, <<"a">>, <<";">>, <<" ">>}
DefaultConfig == [s |-> <<>>, t |-> [x |-> <<>>], v |-> <<>>]
DefaultCtx ==
  [delimiter |-> ";", input_strings_escaped |-> TRUE,
   ignore_unknown_options |-> FALSE, ignore_unknown_objects |-> FALSE,
   invoke_prepare_options |-> TRUE, sanity_level |-> kSanityLevelExactMatch]

CallGetOptionString ==
  /\ cfgPc = "start"
  /\ opt_str' = GetOptionString(cfg, cfgCtx)
  /\ cfgStatus' = OK
  /\ cfgPc' = "serialized"
  /\ UNCHANGED <<cfg, cfgCtx, peer, cfgMatches>>
  /\ UNCHANGED notCfg

CallConfigureFromString ==
  /\ cfgPc = "serialized"
  /\ \E x_first \in BOOLEAN :
       LET r == ConfigureFromString(peer, opt_str, cfgCtx, x_first)
       IN /\ peer' = r.val
          /\ cfgStatus' = r.status
  /\ cfgPc' = "configured"
  /\ UNCHANGED <<cfg, cfgCtx, opt_str, cfgMatches>>
  /\ UNCHANGED notCfg

CallMatches ==
  /\ cfgPc = "configured"
  /\ cfgMatches' = Matches(peer, cfg, cfgCtx)
  /\ cfgPc' = "matched"
  /\ UNCHANGED <<cfg, cfgCtx, opt_str, peer, cfgStatus>>
  /\ UNCHANGED notCfg

CfgNext == CallGetOptionString \/ CallConfigureFromString \/ CallMatches

(***************************************************************************)
(* Claims about the round trip                                             *)
(***************************************************************************)
\* C1 (as stated): configuring a default-constructed peer from
\* C.GetOptionString(X) succeeds, and afterwards the peer matches C.
C1_RoundTrip ==
  /\ cfgPc = "matched" => (cfgStatus = OK /\ cfgMatches)

\* the same statement for one Configurable whose only non-default option is
\* a vector holding one empty string
C1_TrailingEmptyElement ==
  (/\ cfgPc = "matched"
   /\ cfg = [s |-> <<>>, t |-> [x |-> <<>>], v |-> << <<>> >>]
   /\ cfgCtx = DefaultCtx)
    => (cfgStatus = OK /\ cfgMatches)

(***************************************************************************)
(* GetOptionsFromString: the DB options know the option d, the column      *)
(* family options know the option c; both are of type kInt.                *)
(***************************************************************************)
DBOptionNames == {<<"d">>}
CFOptionNames == {<<"c">>}

\* Variant that configures under its local copy of the context, whose
\* ignore_unknown_options is true.
GetColumnFamilyOptionsFromMap_Copy(base_options, opts_map, cfg_options) ==
  With(ConfigureOptions(CFOptionNames, [c |-> base_options.c], opts_map,
                        [cfg_options EXCEPT !.ignore_unknown_options = TRUE]),
       LAMBDA r :
    [status |-> r.status,
     new_options |-> IF r.status = OK THEN r.val ELSE [c |-> base_options.c],
     ctx |-> [cfg_options EXCEPT !.ignore_unknown_options = TRUE]])

\* GetColumnFamilyOptionsFromMap(base_options, opts_map, cfg_options,
\* new_options); ctx is the context the options were configured under
GetColumnFamilyOptionsFromMap(base_options, opts_map, cfg_options) ==
  With(ConfigureOptions(CFOptionNames, [c |-> base_options.c], opts_map,
                        cfg_options), LAMBDA r :
    [status |-> r.status,
     new_options |-> IF r.status = OK THEN r.val ELSE [c |-> base_options.c],
     ctx |-> cfg_options])

\* GetOptionsFromString(base_options, opts_str, cfg_options, new_options).
\* db_keys / cf_keys are the keys offered to the DB / the CF options, unused
\* the keys the DB phase collected, cf_ctx the context of the CF phase.
GetOptionsFromString(base_options, opts_str, cfg_options) ==
  With(StringToMap(opts_str), LAMBDA m :
    IF m.status # OK
    THEN [status |-> m.status, new_options |-> base_options, phase |-> "map"]
    ELSE
    With(ConfigureOptions(DBOptionNames, [d |-> base_options.d], m.map,
           [cfg_options EXCEPT !.ignore_unknown_options = TRUE]), LAMBDA db :
      IF db.status # OK
      THEN [status |-> db.status, new_options |-> base_options,
            phase |-> "db", db_keys |-> DOMAIN m.map, unused |-> db.unused]
      ELSE
      With(GetColumnFamilyOptionsFromMap(base_options, db.unused,
             [cfg_options EXCEPT !.ignore_unknown_options =
                                     cfg_options.ignore_unknown_options]),
           LAMBDA cf :
        [status |-> cf.status,
         new_options |-> IF cf.status = OK
                         THEN [d |-> db.val.d, c |-> cf.new_options.c]
                         ELSE base_options,
         phase |-> "cf", db_keys |-> DOMAIN m.map, unused |-> db.unused,
         cf_keys |-> DOMAIN db.unused, cf_ctx |-> cf.ctx])))

\* the option strings handed to GetOptionsFromString
OptKeys == {"d", "c", "u"}
OptValues == {"1", "x"}
RECURSIVE JoinPairs(_)
JoinPairs(pairs) ==
  IF pairs = <<>> THEN <<>>
  ELSE <<Head(pairs)[1], "=", Head(pairs)[2], ";">> \o JoinPairs(Tail(pairs))

OptStrings ==
  {JoinPairs(ps) : ps \in UNION {[1..n -> OptKeys \X OptValues] :
                                   n \in 0..MaxPairs}} \cup {<<"d">>}

BaseOptions == [d |-> 0, c |-> 0]

CallGetOptionsFromString ==
  /\ optCall = NoOp
  /\ \E opts_str \in OptStrings, ignore \in BOOLEAN :
       /\ optCall' = [op |-> "GetOptionsFromString", opts_str |-> opts_str,
                      base_options |-> BaseOptions,
                      cfg_options |->
                        [DefaultCtx EXCEPT !.ignore_unknown_options = ignore]]
       /\ optRes' = GetOptionsFromString(BaseOptions, opts_str,
                      [DefaultCtx EXCEPT !.ignore_unknown_options = ignore])
  /\ UNCHANGED notOpt

(***************************************************************************)
(* Claims about GetOptionsFromString                                       *)
(***************************************************************************)
\* the map of the last call's option string
CallMap == StringToMap(optCall.opts_str).map
GoodValues == \A k \in DOMAIN CallMap : CallMap[k] \in IntLiterals
Unrecognised == DOMAIN CallMap \ (DBOptionNames \cup CFOptionNames)

\* C11: GetOptionsFromString offers every key to the DB options, collects the
\* keys they do not know, applies exactly those to the column-family options
\* under the caller's ignore_unknown_options; a key neither knows fails the
\* call when that flag is false and is dropped when it is true.
C11_TwoPhaseParse ==
  (optCall.op = "GetOptionsFromString" /\ optRes.phase # "map") =>
    /\ optRes.db_keys = DOMAIN CallMap
    /\ DOMAIN optRes.unused = DOMAIN CallMap \ DBOptionNames
    /\ optRes.phase = "cf" =>
         /\ optRes.cf_keys = DOMAIN optRes.unused
         /\ optRes.cf_ctx.ignore_unknown_options =
              optCall.cfg_options.ignore_unknown_options
    /\ (Unrecognised # {} /\ ~optCall.cfg_options.ignore_unknown_options)
         => optRes.status # OK
    /\ (GoodValues /\ optCall.cfg_options.ignore_unknown_options) =>
         /\ optRes.status = OK
         /\ optRes.new_options =
              [d |-> IF <<"d">> \in DOMAIN CallMap
                     THEN ParseInt(CallMap[<<"d">>]) ELSE 0,
               c |-> IF <<"c">> \in DOMAIN CallMap
                     THEN ParseInt(CallMap[<<"c">>]) ELSE 0]

\* an unknown key was dropped next to a DB and a CF key that were applied
C11_Witness ==
  /\ optCall.op = "GetOptionsFromString"
  /\ optCall.cfg_options.ignore_unknown_options
  /\ optRes.status = OK
  /\ optRes.phase = "cf"
  /\ Unrecognised # {}
  /\ optRes.new_options.c = 1

(***************************************************************************)
(* Calls of ParseStruct on the struct s with the kInt fields x and y       *)
(***************************************************************************)
IntInfo(offset) == Info(offset, "kInt", "kNormal", "kCompareDefault", {})

\* the descriptor table of s, in one of its iteration orders
SMaps ==
  { << << <<"x">>, IntInfo("x") >>, << <<"y">>, IntInfo("y") >> >>,
    << << <<"y">>, IntInfo("y") >>, << <<"x">>, IntInfo("x") >> >> }

SName == <<"s">>
SAddr == [x |-> 0, y |-> 2]

\* the option names handed to ParseStruct: the struct itself, a field of
\* it, with or without the struct's name in front
WholeNames == {<<"s">>, <<"p", ".", "s">>}
FieldNames == {<<"x">>, <<"y">>, <<"z">>}
StructOptNames ==
  WholeNames \cup FieldNames \cup {<<"s", ".">> \o f : f \in FieldNames}

\* the values: a nested option block for the struct, a literal for a field
SubValues == {"1", "b"}
StructValues ==
  {JoinPairs(ps) : ps \in UNION {[1..n -> {"x", "y", "z"} \X SubValues] :
                                   n \in 0..MaxPairs}}
    \cup {<<"1">>, <<"b">>}

\* the orders in which the keys of the value's map are visited
KeyOrders ==
  {o \in [1..3 -> {<<"x">>, <<"y">>, Other}] :
     \A i, j \in 1..3 : i # j => o[i] # o[j]}

CallParseStruct ==
  /\ optCall = NoOp
  /\ \E struct_map \in SMaps, opt_name \in StructOptNames,
        opt_value \in StructValues, ignore \in BOOLEAN, order \in KeyOrders :
       /\ optCall' = [op |-> "ParseStruct", struct_map |-> struct_map,
                      opt_name |-> opt_name, opt_value |-> opt_value,
                      options |->
                        [DefaultCtx EXCEPT !.ignore_unknown_options = ignore,
                                           !.input_strings_escaped = FALSE],
                      opt_addr |-> SAddr, order |-> order]
       /\ optRes' = ParseStruct(SName, struct_map, opt_name, opt_value,
                      [DefaultCtx EXCEPT !.ignore_unknown_options = ignore,
                                         !.input_strings_escaped = FALSE],
                      SAddr, order)
  /\ UNCHANGED notOpt

(***************************************************************************)
(* Claims about ParseStruct                                                *)
(***************************************************************************)
\* the last call parsed a whole-struct value whose text is a well-formed map
WholeStructCall ==
  /\ optCall.op = "ParseStruct"
  /\ optCall.opt_name \in WholeNames
  /\ StringToMap(optCall.opt_value).status = OK

SubMap == StringToMap(optCall.opt_value).map
Visited == Iteration(DOMAIN SubMap, optCall.order, 1)
SubFails(k) == k \in {<<"x">>, <<"y">>} /\ SubMap[k] \notin IntLiterals

\* C12 (as stated): when a whole-struct value is parsed, the first
\* sub-option whose ParseOption fails ends the pass with that error: the
\* result is not OK, and no sub-option visited later is applied.
C12_FailFast ==
  WholeStructCall =>
    \A i \in 1..Len(Visited) :
      (/\ SubFails(Visited[i])
       /\ \A j \in 1..(i - 1) : Visited[j] \in {<<"x">>, <<"y">>}) =>
        /\ optRes.status # OK
        /\ \A j \in (i + 1)..Len(Visited) :
             Visited[j] \in {<<"x">>, <<"y">>} =>
               optRes.val[Visited[j][1]] = optCall.opt_addr[Visited[j][1]]

\* C13 (as stated): a sub-key the struct does not have fails ParseStruct with
\* InvalidArgument when ignore_unknown_options is false and is skipped
\* without error when it is true.
C13_UnknownSubKey ==
  (WholeStructCall /\ <<"z">> \in DOMAIN SubMap) =>
    /\ ~optCall.options.ignore_unknown_options =>
         optRes.status = InvalidArgument
    /\ (/\ optCall.options.ignore_unknown_options
        /\ \A k \in DOMAIN SubMap : ~SubFails(k)) =>
         /\ optRes.status = OK
         /\ \A k \in DOMAIN SubMap \ {<<"z">>} :
              optRes.val[k[1]] = ParseInt(SubMap[k])

\* the field the last call named: s.f or f
FieldCall ==
  /\ optCall.op = "ParseStruct"
  /\ optCall.opt_name \notin WholeNames
NamedField == optCall.opt_name[Len(optCall.opt_name)]

\* C14: ParseStruct on 's.field' or 'field' changes only that field; when s
\* has no such field it returns InvalidArgument and leaves the struct as it
\* was.
C14_PartialUpdate ==
  FieldCall =>
    /\ NamedField \in {"x", "y"} =>
         /\ \A g \in {"x", "y"} \ {NamedField} :
              optRes.val[g] = optCall.opt_addr[g]
         /\ optRes.status = OK =>
              optRes.val[NamedField] = ParseInt(optCall.opt_value)
         /\ optRes.status # OK => optRes.val = optCall.opt_addr
    /\ NamedField = "z" =>
         /\ optRes.status = InvalidArgument
         /\ optRes.val = optCall.opt_addr

\* s.y was set and x kept its value
C14_Witness ==
  /\ FieldCall
  /\ optCall.opt_name = <<"s", ".", "y">>
  /\ optRes.status = OK
  /\ optRes.val = [x |-> 0, y |-> 1]

(***************************************************************************)
(* Calls of ParseVector with the separator ':'                             *)
(***************************************************************************)
VecAlphabet == {"1", "b", ":"}
VecStrings == UNION {[1..n -> VecAlphabet] : n \in 0..MaxLen}
ElemTypes == {"kInt", "kString"}
ElemInfo(type) == Info("0", type, "kNormal", "kCompareDefault", {})

CallParseVector ==
  /\ optCall = NoOp
  /\ \E type \in ElemTypes, value \in VecStrings :
       /\ optCall' = [op |-> "ParseVector", type |-> type, value |-> value]
       /\ optRes' = ParseVector(ElemInfo(type), ":", <<"v">>, value,
                      [DefaultCtx EXCEPT !.input_strings_escaped = FALSE],
                      <<>>, <<Other>>)
  /\ UNCHANGED notOpt

\* the last call parsed a value that ends with the separator
TrailingSeparator ==
  /\ optCall.op = "ParseVector"
  /\ optCall.value # <<>>
  /\ optCall.value[Len(optCall.value)] = ":"

\* C15 (as stated): a trailing separator in the value of ParseVector gives an
\* empty final token that is handed to the element parser: a vector of
\* strings ends with the empty string, a vector of ints is rejected because
\* the empty text is no int.
C15_TrailingSeparator ==
  TrailingSeparator =>
    /\ optCall.type = "kString" =>
         (optRes.status = OK =>
            /\ optRes.val # <<>>
            /\ optRes.val[Len(optRes.val)] = <<>>)
    /\ optCall.type = "kInt" => optRes.status # OK

(***************************************************************************)
(* Serialization and comparison of the struct s whose field x carries a    *)
(* verification kind and a compare level                                   *)
(***************************************************************************)
Verifications == {"kNormal", "kDeprecated", "kAlias"}
Compares ==
  {"kCompareDefault", "kCompareNever", "kCompareLoose", "kCompareExact"}
SanityLevels ==
  {kSanityLevelNone, kSanityLevelLooselyCompatible, kSanityLevelExactMatch}

XInfo(verification, compare) == Info("x", "kInt", verification, compare, {})

\* the descriptor table of s, x first or y first
XMaps(verification, compare) ==
  { << << <<"x">>, XInfo(verification, compare) >>,
       << <<"y">>, IntInfo("y") >> >>,
    << << <<"y">>, IntInfo("y") >>,
       << <<"x">>, XInfo(verification, compare) >> >> }

OldText == {<<>>, <<"o">>}

CallSerializeOption ==
  /\ optCall = NoOp
  /\ \E verification \in Verifications, x \in 0..1, value0 \in OldText :
       /\ optCall' = [op |-> "SerializeOption",
                      verification |-> verification,
                      opt_name |-> <<"x">>,
                      opt_addr |-> [x |-> x, y |-> 2], value0 |-> value0]
       /\ optRes' = SerializeOption(XInfo(verification, "kCompareDefault"),
                      <<"x">>, [x |-> x, y |-> 2], DefaultCtx, value0)
  /\ UNCHANGED notOpt

CallSerializeStruct ==
  /\ optCall = NoOp
  /\ \E verification \in Verifications, x \in 0..1, value0 \in OldText,
        opt_name \in StructOptNames :
       \E struct_map \in XMaps(verification, "kCompareDefault") :
         /\ optCall' = [op |-> "SerializeStruct",
                        verification |-> verification,
                        struct_map |-> struct_map, opt_name |-> opt_name,
                        opt_addr |-> [x |-> x, y |-> 2], value0 |-> value0]
         /\ optRes' = SerializeStruct(SName, struct_map, opt_name,
                        [x |-> x, y |-> 2], DefaultCtx, value0)
  /\ UNCHANGED notOpt

MatchPaths ==
  {"MatchesOption", "MatchesOption(struct)", "MatchesStruct",
   "MatchesOptionsTypeFromMap"}
MatchNames == {<<"s">>, <<"s", ".", "x">>, <<"s", ".", "y">>, <<"x">>, <<"y">>}
ThisAddr == [x |-> 0, y |-> 0]
ThatAddrs == [x : 0..1, y : 0..1]

\* the comparison the path names, of the records this_addr and that_addr
MatchCall(path, struct_map, opt_name, this_addr, that_addr, options, mismatch0) ==
  IF path = "MatchesOption"
  THEN MatchesOption(struct_map[MapFind(struct_map, <<"x">>)][2], <<"x">>,
                     this_addr, that_addr, options, mismatch0)
  ELSE IF path = "MatchesOption(struct)"
  THEN MatchesOption(Struct(SName, struct_map, "s", "kNormal", {}), SName,
                     [s |-> this_addr], [s |-> that_addr], options, mismatch0)
  ELSE IF path = "MatchesStruct"
  THEN MatchesStruct(SName, struct_map, opt_name, this_addr, that_addr,
                     options, mismatch0)
  ELSE MatchesOptionsTypeFromMap(struct_map, this_addr, that_addr, options,
                                 mismatch0)

CallMatchesOption ==
  /\ optCall = NoOp
  /\ \E verification \in Verifications, compare \in Compares,
        level \in SanityLevels, path \in MatchPaths,
        opt_name \in MatchNames, that_addr \in ThatAddrs,
        mismatch0 \in OldText :
       \E struct_map \in XMaps(verification, compare) :
         /\ path # "MatchesStruct" => opt_name = SName
         /\ path = "MatchesOption" => struct_map[1][1] = <<"x">>
         /\ optCall' = [op |-> "Matches", path |-> path,
                        verification |-> verification, compare |-> compare,
                        struct_map |-> struct_map, opt_name |-> opt_name,
                        this_addr |-> ThisAddr, that_addr |-> that_addr,
                        options |-> [DefaultCtx EXCEPT !.sanity_level = level],
                        mismatch0 |-> mismatch0]
         /\ optRes' = MatchCall(path, struct_map, opt_name, ThisAddr,
                        that_addr,
                        [DefaultCtx EXCEPT !.sanity_level = level], mismatch0)
  /\ UNCHANGED notOpt

(***************************************************************************)
(* Claims about Deprecated and Alias descriptors                           *)
(***************************************************************************)
\* the field x of the last call is Deprecated or an Alias
XRetired == optCall.verification \in {"kDeprecated", "kAlias"}

\* C16 (as stated): a Deprecated or Alias descriptor takes no part in
\* serialization or equality: SerializeOption and the three name forms of
\* SerializeStruct write no value for it, and MatchesOption, MatchesStruct
\* and MatchesOptionsTypeFromMap report no mismatch for a difference in its
\* value.
C16_NeverParticipate ==
  /\ (optCall.op = "SerializeOption" /\ XRetired) =>
       optRes.value = optCall.value0
  /\ (optCall.op = "SerializeStruct" /\ XRetired) =>
       /\ optCall.opt_name \in {<<"x">>, <<"s", ".", "x">>} =>
            optRes.value = optCall.value0
       /\ Find(optRes.value, "x", 0) = Npos
  /\ (optCall.op = "Matches" /\ XRetired) =>
       (~optRes.matches => optCall.that_addr.y # optCall.this_addr.y)

(***************************************************************************)
(* Claims about sanity levels                                              *)
(***************************************************************************)
\* the last call was MatchesOption on the live int option x, whose two
\* values differ
DiffersCall(compares) ==
  /\ optCall.op = "Matches"
  /\ optCall.path = "MatchesOption"
  /\ optCall.verification = "kNormal"
  /\ optCall.compare \in compares
  /\ optCall.this_addr.x # optCall.that_addr.x

\* C19 (as stated): a descriptor flagged CompareLoose whose two values differ
\* is equal for MatchesOption under sanity_level LooselyCompatible and
\* unequal under ExactMatch.
C19_LooseEqualUnderLoose ==
  DiffersCall({"kCompareLoose"}) =>
    /\ optCall.options.sanity_level = kSanityLevelLooselyCompatible =>
         optRes.matches
    /\ optCall.options.sanity_level = kSanityLevelExactMatch =>
         ~optRes.matches

\* C19 (amended): a descriptor flagged CompareLoose whose two values differ
\* is unequal for MatchesOption under LooselyCompatible and under ExactMatch
\* and equal only under None; it is a descriptor with the default or the
\* CompareExact level that is equal under LooselyCompatible and unequal
\* under ExactMatch, and one flagged CompareNever is equal at every level.
C19_SanityLevels ==
  /\ DiffersCall({"kCompareLoose"}) =>
       (optRes.matches <=> optCall.options.sanity_level = kSanityLevelNone)
  /\ DiffersCall({"kCompareDefault", "kCompareExact"}) =>
       (optRes.matches <=>
          optCall.options.sanity_level # kSanityLevelExactMatch)
  /\ DiffersCall({"kCompareNever"}) => optRes.matches

\* a CompareLoose option that differs was found unequal under
\* LooselyCompatible
C19_Witness ==
  /\ DiffersCall({"kCompareLoose"})
  /\ optCall.options.sanity_level = kSanityLevelLooselyCompatible
  /\ ~optRes.matches

(***************************************************************************)
(* Claims about the mismatch out-parameter                                 *)
(***************************************************************************)
\* the field f of the last comparison is compared and differs
FieldDiffers(f) ==
  /\ IsCheckEnabled(optCall.options,
       GetSanityLevel(optCall.struct_map[MapFind(optCall.struct_map, f)][2]))
  /\ optCall.this_addr[f[1]] # optCall.that_addr[f[1]]

\* the first field that differs, in the order the table is iterated
FirstDiffering ==
  optCall.struct_map[CHOOSE i \in 1..Len(optCall.struct_map) :
    /\ FieldDiffers(optCall.struct_map[i][1])
    /\ \A j \in 1..(i - 1) : ~FieldDiffers(optCall.struct_map[j][1])][1]

\* the dotted path of the first failing option of the last comparison
FailingPath ==
  IF optCall.path = "MatchesOption" THEN <<"x">>
  ELSE IF optCall.path = "MatchesOptionsTypeFromMap" THEN FirstDiffering
  ELSE IF optCall.opt_name = SName THEN SName \o <<".">> \o FirstDiffering
  ELSE SName \o <<".">> \o <<optCall.opt_name[Len(optCall.opt_name)]>>

\* C20 (as stated): whenever MatchesOption or MatchesStruct returns false,
\* mismatch holds the dotted path of the first failing option, whatever it
\* held before the call.
C20_MismatchPath ==
  (optCall.op = "Matches" /\ ~optRes.matches) =>
    optRes.mismatch = FailingPath

(***************************************************************************)
(* Calls of ParseOption on a descriptor that makes a recursive call: a     *)
(* custom parse closure, the struct s, a Configurable child                *)
(***************************************************************************)
PrepareFlags == {{}, {"kDontPrepare"}}
NestedKinds == {"closure", "struct", "configurable"}

\* the descriptor of the kind, with the flags
NestedInfo(kind, flags) ==
  IF kind = "closure"
  THEN [Info("x", "kInt", "kNormal", "kCompareDefault", flags)
          EXCEPT !.parser_func = "closure"]
  ELSE IF kind = "struct"
  THEN Struct(SName,
              << << <<"x">>, IntInfo("x") >>, << <<"y">>, IntInfo("y") >> >>,
              "s", "kNormal", flags)
  ELSE Info("c", "kConfigurable", "kNormal", "kCompareDefault", flags)

\* the record that holds the option of the kind
NestedPtrs(kind) ==
  IF kind = "closure" THEN {[x |-> 0]}
  ELSE IF kind = "struct" THEN {[s |-> SAddr]}
  ELSE {[c |-> [k |-> 0]], [c |-> NullConfig]}

NestedNames(kind) ==
  IF kind = "closure" THEN {<<"x">>}
  ELSE IF kind = "struct" THEN {SName, <<"s", ".", "x">>}
  ELSE {<<"c">>, <<"k">>}

NestedValues ==
  {<<>>, <<"1">>, <<"b">>, <<"k", "=", "1">>, <<"k", "=", "b">>,
   <<"x", "=", "1">>}

CallParseOption ==
  /\ optCall = NoOp
  /\ \E kind \in NestedKinds, flags \in PrepareFlags,
        value \in NestedValues, prepare \in BOOLEAN, ignore \in BOOLEAN :
       \E opt_name \in NestedNames(kind), opt_ptr \in NestedPtrs(kind) :
         /\ optCall' = [op |-> "ParseOption", kind |-> kind,
                        flags |-> flags, opt_name |-> opt_name,
                        value |-> value, opt_ptr |-> opt_ptr,
                        options |->
                          [DefaultCtx EXCEPT
                             !.invoke_prepare_options = prepare,
                             !.ignore_unknown_options = ignore]]
         /\ optRes' = ParseOption(NestedInfo(kind, flags), opt_name, value,
                        [DefaultCtx EXCEPT
                           !.invoke_prepare_options = prepare,
                           !.ignore_unknown_options = ignore],
                        opt_ptr, <<Other>>)
  /\ UNCHANGED notOpt

\* C17 (as stated): when ParseOption is applied to a descriptor flagged
\* DontPrepare, every recursive configure call it makes (the parse closure,
\* ConfigureFromString or ConfigureOption on a Configurable child) receives a
\* context whose invoke_prepare_options is false.
C17_DontPrepare ==
  (/\ optCall.op = "ParseOption"
   /\ "kDontPrepare" \in optCall.flags
   /\ optRes.sub.called) =>
    ~optRes.sub.options.invoke_prepare_options

(***************************************************************************)
(* Calls of ConfigOptions::Embedded                                        *)
(***************************************************************************)
Delimiters == {";", ":"}
Contexts ==
  [delimiter : Delimiters, input_strings_escaped : BOOLEAN,
   ignore_unknown_options : BOOLEAN, ignore_unknown_objects : BOOLEAN,
   invoke_prepare_options : BOOLEAN, sanity_level : SanityLevels]

CallEmbedded ==
  /\ optCall = NoOp
  /\ \E options \in Contexts :
       /\ optCall' = [op |-> "Embedded", options |-> options]
       /\ optRes' = Embedded(options)
  /\ UNCHANGED notOpt

\* C18 (as stated): the context returned by Embedded() has the delimiter ';'
\* and invoke_prepare_options disabled, and every other field is that of the
\* context it was called on.
C18_Embedded ==
  optCall.op = "Embedded" =>
    /\ optRes.delimiter = ";"
    /\ ~optRes.invoke_prepare_options
    /\ optRes = [optCall.options EXCEPT !.delimiter = ";",
                                        !.invoke_prepare_options = FALSE]

(***************************************************************************)
(* Calls of CheckByName on a Customizable option c verified by name        *)
(***************************************************************************)
ByNameKinds == {"kNormal", "kByName", "kByNameAllowNull", "kByNameAllowFromNull"}
CInfo(verification) == Info("c", "kCustomizable", verification, "kCompareDefault", {})
Children == {NullConfig, [k |-> 0], [k |-> 1]}

CallCheckByName ==
  /\ optCall = NoOp
  /\ \E verification \in ByNameKinds, this \in Children, that \in Children :
       /\ optCall' = [op |-> "CheckByName", verification |-> verification,
                      this_ptr |-> [c |-> this], that_ptr |-> [c |-> that]]
       /\ optRes' = [matches |-> CheckByName(CInfo(verification), <<"c">>,
                                   [c |-> this], [c |-> that], DefaultCtx)]
  /\ UNCHANGED notOpt

\* C21 (as stated): CheckByName compares serialized forms: a ByNameAllowNull
\* descriptor matches whenever one of the two values is null, on either
\* side; a ByNameAllowFromNull descriptor matches when the old value (that)
\* is null; a plain ByName descriptor matches only when the two serialized
\* forms are equal.
C21_CheckByName ==
  optCall.op = "CheckByName" =>
    /\ (/\ optCall.verification = "kByNameAllowNull"
        /\ \/ optCall.this_ptr.c = NullConfig
           \/ optCall.that_ptr.c = NullConfig) => optRes.matches
    /\ (/\ optCall.verification = "kByNameAllowFromNull"
        /\ optCall.that_ptr.c = NullConfig) => optRes.matches
    /\ optCall.verification = "kByName" =>
         (optRes.matches <=> optCall.this_ptr.c = optCall.that_ptr.c)

(***************************************************************************)
(* Calls of ParseOption on the Customizable option storage_provider        *)
(***************************************************************************)
ProviderInfo == AsCustomS("storage_provider", "kByNameAllowNull", {})

\* the provider in the slot before the call: none, or one that was made by
\* the registry and has since been prepared or has failed
PriorProviders ==
  {NullConfig} \cup
    [exists_ : BOOLEAN, create_ : BOOLEAN, status_ : {OK, InvalidArgument}, env_ : {NullEnv, CloudEnv}]

ProviderValues ==
  DummyIds \cup {<<"Z">>}
    \cup {<<"i", "d", "=">> \o DummyId(TRUE, FALSE),
          <<"i", "d", "=">> \o DummyId(FALSE, TRUE) \o <<";", "q", "=", "1">>}

CallCreateFromString ==
  /\ optCall = NoOp
  /\ \E prior \in PriorProviders, value \in ProviderValues, objects \in BOOLEAN, ignore \in BOOLEAN :
       /\ optCall' = [op |-> "CreateFromString", value |-> value, prior |-> prior,
                      options |-> [DefaultCtx EXCEPT !.ignore_unknown_objects = objects,
                                                     !.ignore_unknown_options = ignore]]
       /\ optRes' = [parsed |-> ParseOption(ProviderInfo, <<"storage_provider">>, value,
                                  [DefaultCtx EXCEPT !.ignore_unknown_objects = objects,
                                                     !.ignore_unknown_options = ignore],
                                  [storage_provider |-> prior], <<Other>>),
                     events |-> CreateFromString(value,
                                  [DefaultCtx EXCEPT !.ignore_unknown_objects = objects,
                                                     !.ignore_unknown_options = ignore],
                                  prior).events]
  /\ UNCHANGED notOpt

\* the id the value of the last call names
NamedId ==
  IF Find(optCall.value, "=", 0) = Npos THEN optCall.value
  ELSE StringToMap(optCall.value).map[<<"i", "d">>]

\* the last call gave a provider a registered id other than its own
SwapCall ==
  /\ optCall.op = "CreateFromString"
  /\ optCall.prior # NullConfig
  /\ NamedId \in DummyIds
  /\ NamedId # DummyId(optCall.prior.exists_, optCall.prior.create_)
  /\ optRes.parsed.status = OK

\* position of the first event e in the trace, 0 if there is none
FirstEvent(events, e) ==
  IF \E i \in 1..Len(events) : events[i] = e
  THEN CHOOSE i \in 1..Len(events) : events[i] = e /\ \A j \in 1..(i - 1) : events[j] # e
  ELSE 0

Settings ==
  {<<"s", "=", "a", ";">>, <<"s", "=", ";">>,
   <<"v", "=", "a", ":", "a", ";">>, <<"v", "=", "a", ":", ";">>, <<"v", "=", ";">>,
   <<"t", "=", "{", "x", "=", "a", "}", ";">>,
   <<"t", "=", "{", "x", "=", "a", ";", "z", "=", "a", "}", ";">>,
   <<"u", "=", "a", ";">>, <<"s", ";">>}

RECURSIVE Concat(_)
Concat(parts) == IF parts = <<>> THEN <<>> ELSE Head(parts) \o Concat(Tail(parts))

ConfigStrings == {Concat(ps) : ps \in UNION {[1..n -> Settings] : n \in 0..MaxPairs}}

\* the Configurable before the first application
StartConfigs == {DefaultConfig, [s |-> <<"a">>, t |-> [x |-> <<"a">>], v |-> <<<<"a">>, <<"a">>>>]}

CallConfigure ==
  /\ optCall = NoOp
  /\ \E c \in StartConfigs, str \in ConfigStrings, escaped \in BOOLEAN, x_first \in BOOLEAN :
       /\ optCall' = [op |-> "Configure", times |-> 1, before |-> c, str |-> str,
                      ctx |-> [DefaultCtx EXCEPT !.input_strings_escaped = escaped],
                      x_first |-> x_first, first |-> NoRes]
       /\ optRes' = ConfigureFromString(c, str,
                      [DefaultCtx EXCEPT !.input_strings_escaped = escaped], x_first)
  /\ UNCHANGED notOpt

\* the second application, to the Configurable the first one left
CallConfigureAgain ==
  /\ optCall.op = "Configure"
  /\ optCall.times = 1
  /\ optCall' = [optCall EXCEPT !.times = 2, !.first = optRes]
  /\ optRes' = ConfigureFromString(optRes.val, optCall.str, optCall.ctx, optCall.x_first)
  /\ UNCHANGED notOpt

\* C23: applying the same option string twice in succession returns the same
\* status and leaves the same state as applying it once; a vector option is
\* replaced, not appended to, by the second application.
C23_Idempotent ==
  (optCall.op = "Configure" /\ optCall.times = 2) =>
    /\ optRes.status = optCall.first.status
    /\ optRes.val = optCall.first.val
    /\ Len(optRes.val.v) = Len(optCall.first.val.v)

\* v=a:a was applied twice to a Configurable whose v had two elements
C23_Witness ==
  /\ optCall.op = "Configure"
  /\ optCall.times = 2
  /\ optCall.str = <<"v", "=", "a", ":", "a", ";">>
  /\ optCall.before.v = <<<<"a">>, <<"a">>>>
  /\ optRes.status = OK
  /\ optRes.val.v = <<<<"a">>, <<"a">>>>

(***************************************************************************)
(* CloudStorageReadableFileImpl (cloud_storage_provider.cc)                *)
(*                                                                         *)
(* offset_, file_size_ and the arguments are unsigned integers of Width    *)
(* bits.  A file size and the length of a scratch buffer are at most       *)
(* MaxObject, the largest signed value of that width (off_t, PTRDIFF_MAX). *)
(* Only the size of a result Slice is modelled.                            *)
(***************************************************************************)
Modulus == 2 ^ Width
MaxObject == 2 ^ (Width - 1) - 1
Wrap(x) == x % Modulus

\* DoCloudRead of a backend that fails or not, and has avail bytes to give:
\* it returns at most the n bytes requested
DoCloudRead(backend, offset, n) == [status |-> backend.status, bytes_read |-> IF n < backend.avail THEN n ELSE backend.avail]

\* n after "if (offset + n > file_size_) n = file_size_ - offset"
TrimmedLength(file, offset, n) == IF Wrap(offset + n) > file.file_size_ THEN file.file_size_ - offset ELSE n

\* Read(uint64_t offset, size_t n, Slice* result, char* scratch) const:
\* the status, the size of *result and the DoCloudRead calls made
ReadAt(file, offset, n, backend) ==
  IF offset >= file.file_size_
    THEN [status |-> OK, result |-> 0, cloud |-> <<>>]
    ELSE With(TrimmedLength(file, offset, n), LAMBDA m :
           With(DoCloudRead(backend, offset, m), LAMBDA st :
             [status |-> st.status,
              result |-> IF st.status = OK THEN st.bytes_read ELSE 0,
              cloud |-> <<[offset |-> offset, n |-> m]>>]))

\* Read(size_t n, Slice* result, char* scratch): the file afterwards and
\* what the call returned
Read(file, n, backend) ==
  With(ReadAt(file, file.offset_, n, backend), LAMBDA s :
    [file |-> IF s.status = OK
                THEN [file EXCEPT !.offset_ = Wrap(file.offset_ + s.result)]
                ELSE file,
     ret |-> s])

\* Skip without the clamp to the file size
Skip_NoClamp(file, n) ==
  [file EXCEPT !.offset_ = Wrap(file.offset_ + n)]

\* Skip(uint64_t n)
Skip(file, n) ==
  With(Wrap(file.offset_ + n), LAMBDA o :
    [file EXCEPT !.offset_ = IF o > file.file_size_ THEN file.file_size_ ELSE o])

\* the constructor: offset_(0), file_size_(file_size)
CloudStorageReadableFileImpl(file_size) == [kind |-> "readable", offset_ |-> 0, file_size_ |-> file_size]

\* a failing backend gives no bytes
Backends == [status : {OK}, avail : 0..MaxObject] \cup [status : {"IOError"}, avail : {0}]

\* offsets of random-access reads: inside any file, just past the largest
\* one, and the largest offset there is
ReadOffsets == 0..(MaxObject + 1) \cup {Modulus - 1}

CallRead ==
  \E n \in 0..MaxObject, backend \in Backends :
    /\ obj' = Read(obj, n, backend).file
    /\ objOp' = [op |-> "Read", offset |-> obj.offset_, n |-> n, ret |-> Read(obj, n, backend).ret]
    /\ UNCHANGED objHist
    /\ UNCHANGED notObj

CallReadAt ==
  \E offset \in ReadOffsets, n \in 0..MaxObject, backend \in Backends :
    /\ objOp' = [op |-> "ReadAt", offset |-> offset, n |-> n, ret |-> ReadAt(obj, offset, n, backend)]
    /\ UNCHANGED <<obj, objHist>>
    /\ UNCHANGED notObj

CallSkip ==
  \E n \in 0..(Modulus - 1) :
    /\ obj' = Skip(obj, n)
    /\ objOp' = [op |-> "Skip", offset |-> obj.offset_, n |-> n, ret |-> [status |-> OK, result |-> 0, cloud |-> <<>>]]
    /\ UNCHANGED objHist
    /\ UNCHANGED notObj

ReadableNext == CallRead \/ CallReadAt \/ CallSkip

\* C24: the sequential offset never exceeds the file size; a sequential
\* Read advances it by exactly the size of the result when it succeeds and
\* leaves it alone when it fails; a read at or beyond the file size returns
\* OK with an empty result and makes no cloud read.
C24_OffsetWithinFile ==
  /\ obj.offset_ <= obj.file_size_
  /\ objOp.op = "Read" =>
       /\ objOp.ret.status = OK => obj.offset_ = objOp.offset + objOp.ret.result
       /\ objOp.ret.status # OK => obj.offset_ = objOp.offset
  /\ (objOp.op \in {"Read", "ReadAt"} /\ objOp.offset >= obj.file_size_) =>
       /\ objOp.ret.status = OK
       /\ objOp.ret.result = 0
       /\ objOp.ret.cloud = <<>>

\* a sequential read has reached the end of a file that has bytes, and
\* the next sequential read is made there
C24_Witness ==
  /\ objOp.op = "Read"
  /\ obj.file_size_ > 1
  /\ objOp.offset = obj.file_size_
  /\ objOp.n > 0
  /\ objOp.ret = [status |-> OK, result |-> 0, cloud |-> <<>>]

(***************************************************************************)
(* CloudStorageWritableFileImpl (cloud_storage_provider.cc)                *)
(*                                                                         *)
(* The local directory holds two names, fname_ and fname_ + ".tmp"; the    *)
(* bucket holds cloud_fname_.  A file is Absent or holds "old" (what was   *)
(* there before this object was made) or "new" (what is written through    *)
(* this object).  local_file_ is "null" or the name under which the open   *)
(* file is found in the directory.                                         *)
(***************************************************************************)
Absent == "absent"
Outcomes == {OK, "IOError"}

Called(call, status) == [call |-> call, status |-> status]

\* Env::FileExists: OK or NotFound, or the error of a failing directory
FileExists(files, name, fault) ==
  IF fault THEN "IOError" ELSE IF files[name] = Absent THEN "NotFound" ELSE OK

\* CloudEnv::CopyLocalFileToDest: the bucket afterwards and the status
CopyLocalFileToDest(file, outcome) ==
  IF file.files.fname = Absent THEN [cloud |-> file.cloud, status |-> "IOError"]
  ELSE IF outcome = OK THEN [cloud |-> file.files.fname, status |-> OK]
  ELSE [cloud |-> file.cloud, status |-> outcome]

\* Env::RenameFile(tmp_file_, fname_): the directory afterwards
RenameFile(files, outcome) ==
  IF outcome = OK THEN [fname |-> files.tmp, tmp |-> Absent] ELSE files

\* the constructor, for a directory and a bucket, the file's kind, the
\* keep_local_sst_files option of the env and the outcomes of FileExists
\* and NewWritableFile
CloudStorageWritableFileImpl(in) ==
  With(IF in.is_manifest THEN FileExists(in.files, "fname", in.exists_fault) ELSE "NotFound", LAMBDA s :
    With([kind |-> "writable", is_manifest_ |-> in.is_manifest,
          keep_local_sst_files |-> in.keep_local, tmp_file_ |-> "",
          local_file_ |-> "null", status_ |-> OK,
          files |-> in.files, cloud |-> in.cloud], LAMBDA file :
      IF in.is_manifest /\ s # OK /\ s # "NotFound"
        THEN [file EXCEPT !.status_ = s]
        ELSE With(IF in.is_manifest /\ s = OK THEN "tmp" ELSE "fname", LAMBDA file_to_open :
               With(IF file_to_open = "tmp" THEN "fname.tmp" ELSE "", LAMBDA tmp_file :
                 IF in.open = OK
                   THEN [file EXCEPT !.tmp_file_ = tmp_file,
                                     !.local_file_ = file_to_open,
                                     !.files[file_to_open] = "new"]
                   ELSE [file EXCEPT !.tmp_file_ = tmp_file,
                                     !.status_ = in.open]))))

\* Close with the delete made whatever keep_local_sst_files says
Close_AlwaysDelete(file, out) ==
  IF file.local_file_ = "null"
    THEN [file |-> file, ret |-> file.status_, trace |-> <<>>, asserts |-> TRUE]
  ELSE IF out.close # OK
    THEN [file |-> file, ret |-> out.close,
          trace |-> <<Called("Close", out.close)>>,
          asserts |-> file.status_ = OK]
  ELSE IF file.is_manifest_
    THEN [file |-> [file EXCEPT !.local_file_ = "null"], ret |-> OK,
          trace |-> <<Called("Close", OK)>>, asserts |-> file.status_ = OK]
  ELSE With(CopyLocalFileToDest(file, out.copy), LAMBDA c :
    IF c.status # OK
      THEN [file |-> [file EXCEPT !.local_file_ = "null", !.status_ = c.status],
            ret |-> c.status,
            trace |-> <<Called("Close", OK), Called("CopyLocalFileToDest", c.status)>>,
            asserts |-> file.status_ = OK]
    ELSE [file |-> [file EXCEPT !.local_file_ = "null", !.cloud = c.cloud,
                                  !.status_ = out.delete,
                                  !.files.fname = IF out.delete = OK THEN Absent ELSE @],
            ret |-> IF out.delete = OK THEN OK ELSE out.delete,
            trace |-> <<Called("Close", OK), Called("CopyLocalFileToDest", OK), Called("DeleteFile", out.delete)>>,
            asserts |-> file.status_ = OK])

\* Close(): the object, directory and bucket afterwards, the status
\* returned, the calls made and whether assert(status_.ok()) held
Close(file, out) ==
  IF file.local_file_ = "null"
    THEN [file |-> file, ret |-> file.status_, trace |-> <<>>, asserts |-> TRUE]
  ELSE IF out.close # OK
    THEN [file |-> file, ret |-> out.close,
          trace |-> <<Called("Close", out.close)>>,
          asserts |-> file.status_ = OK]
  ELSE IF file.is_manifest_
    THEN [file |-> [file EXCEPT !.local_file_ = "null"], ret |-> OK,
          trace |-> <<Called("Close", OK)>>, asserts |-> file.status_ = OK]
  ELSE With(CopyLocalFileToDest(file, out.copy), LAMBDA c :
    IF c.status # OK
      THEN [file |-> [file EXCEPT !.local_file_ = "null", !.status_ = c.status],
            ret |-> c.status,
            trace |-> <<Called("Close", OK), Called("CopyLocalFileToDest", c.status)>>,
            asserts |-> file.status_ = OK]
    ELSE IF file.keep_local_sst_files
      THEN [file |-> [file EXCEPT !.local_file_ = "null", !.cloud = c.cloud,
                                  !.status_ = OK],
            ret |-> OK,
            trace |-> <<Called("Close", OK), Called("CopyLocalFileToDest", OK)>>,
            asserts |-> file.status_ = OK]
    ELSE [file |-> [file EXCEPT !.local_file_ = "null", !.cloud = c.cloud,
                                  !.status_ = out.delete,
                                  !.files.fname = IF out.delete = OK THEN Absent ELSE @],
            ret |-> IF out.delete = OK THEN OK ELSE out.delete,
            trace |-> <<Called("Close", OK), Called("CopyLocalFileToDest", OK), Called("DeleteFile", out.delete)>>,
            asserts |-> file.status_ = OK])

\* the part of Sync after local_file_->Sync() returned stat: the rename of
\* a temporary file, then the copy of a manifest
SyncManifest(file, stat, out) ==
  With(IF stat = OK /\ file.tmp_file_ # "" THEN out.rename ELSE stat, LAMBDA renamed :
    With(IF stat = OK /\ file.tmp_file_ # ""
           THEN [file EXCEPT !.files = RenameFile(file.files, out.rename),
                             !.local_file_ = IF out.rename = OK THEN "fname" ELSE @,
                             !.tmp_file_ = ""]
           ELSE file, LAMBDA f :
      With(IF stat = OK /\ file.tmp_file_ # "" THEN <<Called("RenameFile", out.rename)>> ELSE <<>>, LAMBDA t :
        IF f.is_manifest_ /\ renamed = OK
          THEN With(CopyLocalFileToDest(f, out.copy), LAMBDA c :
                 [file |-> [f EXCEPT !.cloud = c.cloud], ret |-> c.status,
                  trace |-> t \o <<Called("CopyLocalFileToDest", c.status)>>])
          ELSE [file |-> f, ret |-> renamed, trace |-> t])))

\* Sync with the status of the local sync kept in status_
Sync_StoreStatus(file, out) ==
  IF file.local_file_ = "null"
    THEN [file |-> file, ret |-> file.status_, trace |-> <<>>, asserts |-> TRUE]
    ELSE With(SyncManifest(file, out.sync, out), LAMBDA r :
           [file |-> [r.file EXCEPT !.status_ = out.sync], ret |-> r.ret,
            trace |-> <<Called("Sync", out.sync)>> \o r.trace,
            asserts |-> file.status_ = OK])

\* Sync()
Sync(file, out) ==
  IF file.local_file_ = "null"
    THEN [file |-> file, ret |-> file.status_, trace |-> <<>>, asserts |-> TRUE]
    ELSE With(SyncManifest(file, out.sync, out), LAMBDA r :
           [file |-> r.file, ret |-> r.ret,
            trace |-> <<Called("Sync", out.sync)>> \o r.trace,
            asserts |-> file.status_ = OK])

Contents == {Absent, "old"}
OpenInputs == [is_manifest : BOOLEAN, keep_local : BOOLEAN, files : [fname : Contents, tmp : {Absent}], cloud : Contents, exists_fault : BOOLEAN, open : Outcomes]

CallSync ==
  \E out \in [sync : Outcomes, rename : Outcomes, copy : Outcomes] :
    /\ obj' = Sync(obj, out).file
    /\ objOp' = [op |-> "Sync", before |-> obj, out |-> out, ret |-> Sync(obj, out).ret, trace |-> Sync(obj, out).trace, asserts |-> Sync(obj, out).asserts]
    /\ UNCHANGED objHist
    /\ UNCHANGED notObj

CallClose ==
  \E out \in [close : Outcomes, copy : Outcomes, delete : Outcomes] :
    /\ obj' = Close(obj, out).file
    /\ objOp' = [op |-> "Close", before |-> obj, out |-> out, ret |-> Close(obj, out).ret, trace |-> Close(obj, out).trace, asserts |-> Close(obj, out).asserts]
    /\ UNCHANGED objHist
    /\ UNCHANGED notObj

WritableNext == CallSync \/ CallClose

\* the calls of the last operation, by name
Calls(trace, call) == {i \in 1..Len(trace) : trace[i].call = call}
CallsOK(trace, call) == {i \in 1..Len(trace) : trace[i].call = call /\ trace[i].status = OK}

\* the object was made for a manifest that was already there
OverExistingManifest ==
  /\ objHist.is_manifest /\ objHist.files.fname # Absent
  /\ ~objHist.exists_fault /\ objHist.open = OK

\* C25: for a manifest opened while a local manifest exists, the data goes
\* to the temporary file and the manifest is left as it was; every Sync of
\* the open file that returns OK has copied the manifest to the cloud, and
\* what it copied holds the data written through this object (the temporary
\* file had been renamed onto the manifest name).
C25_SyncUploadsWritten ==
  (obj.kind = "writable" /\ OverExistingManifest) =>
    /\ objOp.op = "none" =>
         /\ obj.local_file_ = "tmp"
         /\ obj.files = [fname |-> "old", tmp |-> "new"]
    /\ (objOp.op = "Sync" /\ objOp.before.local_file_ # "null" /\ objOp.ret = OK) =>
         /\ CallsOK(objOp.trace, "CopyLocalFileToDest") # {}
         /\ obj.files.fname = "new"
         /\ obj.cloud = "new"

\* a Close that found the local file open
ClosedOpenFile == obj.kind = "writable" /\ objOp.op = "Close" /\ objOp.before.local_file_ # "null"

\* C26: Close of an SST file deletes the local file only after the copy to
\* the cloud has succeeded and only when keep_local_sst_files is false; if
\* the local close or the upload fails the local file is still there; Close
\* of a manifest neither uploads nor deletes.
C26_CloseDeletesAfterUpload ==
  ClosedOpenFile =>
    /\ \A i \in Calls(objOp.trace, "DeleteFile") :
         /\ ~obj.is_manifest_ /\ ~obj.keep_local_sst_files
         /\ \E j \in CallsOK(objOp.trace, "CopyLocalFileToDest") : j < i
    /\ obj.files.fname = Absent =>
         /\ CallsOK(objOp.trace, "DeleteFile") # {}
         /\ obj.cloud = objOp.before.files.fname
    /\ (~obj.is_manifest_ /\ (objOp.out.close # OK \/ objOp.out.copy # OK)) =>
         /\ obj.files.fname = "new"
         /\ Calls(objOp.trace, "DeleteFile") = {}
    /\ obj.is_manifest_ =>
         /\ Calls(objOp.trace, "CopyLocalFileToDest") = {}
         /\ Calls(objOp.trace, "DeleteFile") = {}
         /\ obj.cloud = objOp.before.cloud
         /\ obj.files = objOp.before.files

\* an SST file was closed, copied to the cloud and deleted
C26_Witness ==
  /\ ClosedOpenFile
  /\ ~obj.is_manifest_ /\ ~obj.keep_local_sst_files
  /\ objOp.ret = OK
  /\ obj.cloud = "new"
  /\ obj.files.fname = Absent

\* C27: while the local file is open the stored status is OK, and the
\* assert(status_.ok()) of Close and Sync holds whenever it is reached.
C27_OpenImpliesOK ==
  obj.kind = "writable" =>
    /\ obj.local_file_ # "null" => obj.status_ = OK
    /\ objOp.op \in {"Sync", "Close"} => objOp.asserts

\* a Sync failed, the Close that followed could not close the local file:
\* the file is still open
C27_Witness ==
  /\ obj.kind = "writable"
  /\ objOp.op = "Close"
  /\ objOp.ret # OK
  /\ obj.local_file_ # "null"
  /\ obj.tmp_file_ = "" /\ obj.files.tmp = "new"

(***************************************************************************)
(* CloudStorageProviderImpl::GetObject (cloud_storage_provider.cc)         *)
(*                                                                         *)
(* The local directory holds local_destination and the temporary files     *)
(* local_destination + ".tmp-" + r, one for each value r of rng_.Next().   *)
(* A file is Absent, or "old" (there before any download), or the size of  *)
(* what a download wrote.                                                  *)
(***************************************************************************)
RngValues == {1, 2}
Sizes == 0..MaxSize

\* the files of that directory
NoFile == [from |-> "none", size |-> 0]
OldFile == [from |-> "old", size |-> 0]
Downloaded(size) == [from |-> "download", size |-> size]

\* Env::DeleteFile(tmp_destination); its status is not looked at
DeleteFile(dir, r) == [dir EXCEPT !.tmp[r] = NoFile]

\* DoGetObject(bucket, object, tmp_destination, &remote_size): the status,
\* the size it reports and what it left under the temporary name
DoGetObject(dir, r, in) ==
  [status |-> in.download, remote_size |-> in.remote_size,
   dir |-> [dir EXCEPT !.tmp[r] = in.written]]

\* Env::GetFileSize(tmp_destination, &local_size)
GetFileSize(dir, r, fault) ==
  IF fault \/ dir.tmp[r] = NoFile
    THEN [status |-> "IOError", local_size |-> 0]
    ELSE [status |-> OK, local_size |-> dir.tmp[r].size]

\* Env::RenameFile(tmp_destination, local_destination)
RenameOnto(dir, r, outcome) ==
  IF outcome = OK
    THEN [dir EXCEPT !.dest = dir.tmp[r], !.tmp[r] = NoFile]
    ELSE dir

\* GetObject(bucket_name, object_path, local_destination): the directory
\* afterwards and the status returned
GetObject(dir, r, in) ==
  With(DoGetObject(dir, r, in), LAMBDA got :
    IF got.status # OK
      THEN [dir |-> DeleteFile(got.dir, r), ret |-> got.status]
    ELSE With(GetFileSize(got.dir, r, in.size_fault), LAMBDA sz :
      IF sz.status # OK THEN [dir |-> got.dir, ret |-> sz.status]
      ELSE IF sz.local_size # got.remote_size
        THEN [dir |-> DeleteFile(got.dir, r), ret |-> "IOError"]
      ELSE [dir |-> RenameOnto(got.dir, r, in.rename), ret |-> in.rename]))

\* outcomes of the calls GetObject makes: a download that fails leaves
\* nothing or a part, one that succeeds leaves a file of some size
Downloads == [download : {OK}, remote_size : Sizes, written : {Downloaded(n) : n \in Sizes}, size_fault : BOOLEAN, rename : Outcomes] \cup [download : {"IOError"}, remote_size : {0}, written : {Downloaded(n) : n \in Sizes} \cup {NoFile}, size_fault : {FALSE}, rename : {OK}]

CallGetObject ==
  \E r \in RngValues, in \in Downloads :
    /\ obj' = GetObject(obj, r, in).dir
    /\ objOp' = [op |-> "GetObject", before |-> obj, r |-> r, in |-> in, ret |-> GetObject(obj, r, in).ret]
    /\ UNCHANGED objHist
    /\ UNCHANGED notObj

\* C28: GetObject changes local_destination only by renaming onto it a
\* temporary file whose local size equals the reported remote size; when
\* it fails (download error, size lookup error, size mismatch, rename
\* error) local_destination is as before and the temporary file is gone.
C28_GetObjectAtomic ==
  objOp.op = "GetObject" =>
    /\ obj.dest # objOp.before.dest =>
         /\ objOp.ret = OK
         /\ obj.dest = Downloaded(objOp.in.remote_size)
         /\ objOp.in.written = obj.dest
    /\ objOp.ret # OK =>
         /\ obj.dest = objOp.before.dest
         /\ obj.tmp[objOp.r] = NoFile

(***************************************************************************)
(* Logger::Close (env.cc)                                                  *)
(***************************************************************************)
Loggers == 1..MaxLoggers

\* what CloseImpl returns: NotSupported in Logger itself, OK or an error
\* in a class that overrides it
CloseImplResults == {"NotSupported", OK, "IOError"}

\* the constructor leaves closed_ false
NewLogger == [closed_ |-> FALSE]

\* Close that marks the logger closed only when CloseImpl succeeded
LoggerClose_Retry(logger, impl) ==
  IF ~logger.closed_
    THEN [logger |-> [logger EXCEPT !.closed_ = (impl = OK)], ret |-> impl, invoked |-> TRUE]
    ELSE [logger |-> logger, ret |-> OK, invoked |-> FALSE]

\* Logger::Close(): the logger afterwards, the status returned and whether
\* CloseImpl was invoked (impl is what it returns)
LoggerClose(logger, impl) ==
  IF ~logger.closed_
    THEN [logger |-> [logger EXCEPT !.closed_ = TRUE], ret |-> impl, invoked |-> TRUE]
    ELSE [logger |-> logger, ret |-> OK, invoked |-> FALSE]

CallLoggerClose ==
  \E l \in Loggers, impl \in CloseImplResults :
    /\ objHist[l].calls < MaxCloses
    /\ obj' = [obj EXCEPT ![l] = LoggerClose(obj[l], impl).logger]
    /\ objOp' = [op |-> "Close", logger |-> l, ret |-> LoggerClose(obj[l], impl).ret, invoked |-> LoggerClose(obj[l], impl).invoked]
    /\ objHist' = [objHist EXCEPT ![l] = [calls |-> @.calls + 1, impl |-> IF LoggerClose(obj[l], impl).invoked THEN Append(@.impl, impl) ELSE @.impl]]
    /\ UNCHANGED notObj

\* C30: over the Close calls made on a logger, CloseImpl is invoked at most
\* once, by the first call, whose status is the one CloseImpl returned;
\* every later Close returns OK without invoking it.
C30_CloseImplOnce ==
  /\ \A l \in Loggers :
       /\ Len(objHist[l].impl) <= 1
       /\ objHist[l].calls >= 1 => Len(objHist[l].impl) = 1
  /\ objOp.op = "Close" =>
       IF objHist[objOp.logger].calls = 1
         THEN objOp.invoked /\ objOp.ret = objHist[objOp.logger].impl[1]
         ELSE ~objOp.invoked /\ objOp.ret = OK

\* a logger whose CloseImpl failed has been closed again
C30_Witness ==
  /\ objOp.op = "Close"
  /\ objHist[objOp.logger].calls = MaxCloses
  /\ objHist[objOp.logger].impl = <<"IOError">>
  /\ objOp.ret = OK

(***************************************************************************)
(* GetDBOptionsFromMap / String and GetColumnFamilyOptionsFromString       *)
(* (options_helper.cc).  The Configurable made by DBOptionsAsConfigurable  *)
(* or CFOptionsAsConfigurable holds its own copy of the base options.      *)
(***************************************************************************)
\* the copy held by the Configurable after a ConfigureFromMap that failed
\* when the keys in visited had been applied
ConfigAfter(cur, opts_map, visited) ==
  [n \in DOMAIN cur |->
     IF <<n>> \in visited /\ <<n>> \in DOMAIN opts_map /\ opts_map[<<n>>] \in IntLiterals
       THEN ParseInt(opts_map[<<n>>]) ELSE cur[n]]

\* ConfigureFromMap<T> with the copy into *new_opts made whatever the status
ConfigureFromMapT_Always(names, config, opts_map, cfg_options, new_opts, visited) ==
  With(ConfigureOptions(names, config, opts_map, cfg_options), LAMBDA s :
    [status |-> s.status,
     config |-> IF s.status = OK THEN s.val ELSE ConfigAfter(config, opts_map, visited),
     new_options |-> IF s.status = OK THEN s.val ELSE ConfigAfter(config, opts_map, visited)])

\* ConfigureFromMap<T>(config, opts, name, cfg, new_opts): the status, the
\* options held by config afterwards and *new_opts
ConfigureFromMapT(names, config, opts_map, cfg_options, new_opts, visited) ==
  With(ConfigureOptions(names, config, opts_map, cfg_options), LAMBDA s :
    [status |-> s.status,
     config |-> IF s.status = OK THEN s.val ELSE ConfigAfter(config, opts_map, visited),
     new_options |-> IF s.status = OK THEN s.val ELSE new_opts])

\* GetDBOptionsFromMap(base_options, opts_map, cfg_options, new_options)
GetDBOptionsFromMap(base_options, opts_map, cfg_options, visited) ==
  ConfigureFromMapT(DBOptionNames, base_options, opts_map, cfg_options, base_options, visited)

\* GetDBOptionsFromString(base_options, opts_str, cfg_options, new_options)
GetDBOptionsFromString(base_options, opts_str, cfg_options, visited) ==
  With(StringToMap(opts_str), LAMBDA m :
    IF m.status # OK
      THEN [status |-> m.status, config |-> base_options, new_options |-> base_options]
      ELSE GetDBOptionsFromMap(base_options, m.map, cfg_options, visited))

\* GetColumnFamilyOptionsFromMap, with the options its Configurable holds
\* afterwards
CFOptionsFromMap(base_options, opts_map, cfg_options, visited) ==
  With(GetColumnFamilyOptionsFromMap(base_options, opts_map, cfg_options), LAMBDA r :
    [status |-> r.status,
     config |-> IF r.status = OK THEN r.new_options ELSE ConfigAfter(base_options, opts_map, visited),
     new_options |-> r.new_options])

\* GetColumnFamilyOptionsFromString(base_options, opts_str, cfg_options,
\* new_options)
GetColumnFamilyOptionsFromString(base_options, opts_str, cfg_options, visited) ==
  With(StringToMap(opts_str), LAMBDA m :
    IF m.status # OK
      THEN [status |-> m.status, config |-> base_options, new_options |-> base_options]
      ELSE CFOptionsFromMap(base_options, m.map, cfg_options, visited))

\* the calls: a base with one option, a string of OptStrings or its map,
\* ignore_unknown_options either way, and the keys a failing call applied
CallGetDBOptionsFromMap ==
  /\ optCall = NoOp
  /\ \E opts_str \in OptStrings, ignore \in BOOLEAN :
       /\ StringToMap(opts_str).status = OK
       /\ \E visited \in SUBSET DOMAIN StringToMap(opts_str).map :
            /\ optCall' = [op |-> "GetDBOptionsFromMap", opts_map |-> StringToMap(opts_str).map, base_options |-> [d |-> 0], ignore |-> ignore, visited |-> visited]
            /\ optRes' = GetDBOptionsFromMap([d |-> 0], StringToMap(opts_str).map, [DefaultCtx EXCEPT !.ignore_unknown_options = ignore], visited)
  /\ UNCHANGED notOpt

CallGetDBOptionsFromString ==
  /\ optCall = NoOp
  /\ \E opts_str \in OptStrings, ignore \in BOOLEAN :
       \E visited \in SUBSET DOMAIN StringToMap(opts_str).map :
         /\ optCall' = [op |-> "GetDBOptionsFromString", opts_str |-> opts_str, base_options |-> [d |-> 0], ignore |-> ignore, visited |-> visited]
         /\ optRes' = GetDBOptionsFromString([d |-> 0], opts_str, [DefaultCtx EXCEPT !.ignore_unknown_options = ignore], visited)
  /\ UNCHANGED notOpt

CallGetColumnFamilyOptionsFromMap ==
  /\ optCall = NoOp
  /\ \E opts_str \in OptStrings, ignore \in BOOLEAN :
       /\ StringToMap(opts_str).status = OK
       /\ \E visited \in SUBSET DOMAIN StringToMap(opts_str).map :
            /\ optCall' = [op |-> "GetColumnFamilyOptionsFromMap", opts_map |-> StringToMap(opts_str).map, base_options |-> [c |-> 0], ignore |-> ignore, visited |-> visited]
            /\ optRes' = CFOptionsFromMap([c |-> 0], StringToMap(opts_str).map, [DefaultCtx EXCEPT !.ignore_unknown_options = ignore], visited)
  /\ UNCHANGED notOpt

CallGetColumnFamilyOptionsFromString ==
  /\ optCall = NoOp
  /\ \E opts_str \in OptStrings, ignore \in BOOLEAN :
       \E visited \in SUBSET DOMAIN StringToMap(opts_str).map :
         /\ optCall' = [op |-> "GetColumnFamilyOptionsFromString", opts_str |-> opts_str, base_options |-> [c |-> 0], ignore |-> ignore, visited |-> visited]
         /\ optRes' = GetColumnFamilyOptionsFromString([c |-> 0], opts_str, [DefaultCtx EXCEPT !.ignore_unknown_options = ignore], visited)
  /\ UNCHANGED notOpt

GetOptionsCalls == {"GetDBOptionsFromString", "GetDBOptionsFromMap", "GetColumnFamilyOptionsFromString", "GetColumnFamilyOptionsFromMap", "GetOptionsFromString"}

\* C29: whenever one of the five functions returns a status that is not
\* OK, *new_options equals base_options, whatever the Configurable it
\* worked on had already applied.
C29_NoPartialOptions ==
  (optCall.op \in GetOptionsCalls /\ optRes.status # OK) =>
    optRes.new_options = optCall.base_options

\* a call failed on an unknown key after it had applied a good one to the
\* Configurable
C29_Witness ==
  /\ optCall.op = "GetDBOptionsFromMap"
  /\ optRes.status # OK
  /\ optRes.config = [d |-> 1]
  /\ optRes.new_options = [d |-> 0]

(***************************************************************************)
(* Specifications                                                          *)
(***************************************************************************)
\* CloudEnvOptions of a MockCloudEnv after construction: no provider, no
\* buckets
DefaultCloudOptions ==
  [storage_provider |-> NoProvider, create_bucket_if_missing |-> TRUE,
   dest_bucket |-> FALSE, src_bucket |-> FALSE]

\* Tokenizer: the input string is drawn, nothing else exists
InitLexer ==
  /\ lexIn \in Strings(MaxLen)
  /\ lexOp = "none" /\ lexDelim = ";" /\ lexStart = 0 /\ lexRes = NoRes
  /\ plugins = <<>> /\ plugOp = NoOp /\ plugTrace = <<>>
  /\ plugRet = OKs /\ wrapped = BaseDB
  /\ cloud_opts = DefaultCloudOptions /\ status_ = OK /\ env_ = NullEnv
  /\ prepared = "never" /\ provOp = NoOp /\ provCalls = <<>> /\ provRet = OK
  /\ cfg = DefaultConfig /\ cfgCtx = DefaultCtx /\ cfgPc = "start"
  /\ opt_str = <<>> /\ peer = DefaultConfig /\ cfgStatus = OK
  /\ cfgMatches = FALSE
  /\ optCall = NoOp /\ optRes = NoRes
  /\ obj = NoObj /\ objOp = NoOp /\ objHist = <<>>

\* DBPlugin: the registered plugin list is drawn
InitPlugin ==
  /\ plugins \in UNION {[1..n -> [modes : ModeSets]] : n \in 0..MaxPlugins}
  /\ plugOp = NoOp /\ plugTrace = <<>> /\ plugRet = OKs /\ wrapped = BaseDB
  /\ lexIn = <<>>
  /\ lexOp = "none" /\ lexDelim = ";" /\ lexStart = 0 /\ lexRes = NoRes
  /\ cloud_opts = DefaultCloudOptions /\ status_ = OK /\ env_ = NullEnv
  /\ prepared = "never" /\ provOp = NoOp /\ provCalls = <<>> /\ provRet = OK
  /\ cfg = DefaultConfig /\ cfgCtx = DefaultCtx /\ cfgPc = "start"
  /\ opt_str = <<>> /\ peer = DefaultConfig /\ cfgStatus = OK
  /\ cfgMatches = FALSE
  /\ optCall = NoOp /\ optRes = NoRes
  /\ obj = NoObj /\ objOp = NoOp /\ objHist = <<>>

\* Storage provider: a MockCloudEnv after construction
InitProvider ==
  /\ cloud_opts = DefaultCloudOptions /\ status_ = OK /\ env_ = NullEnv
  /\ prepared = "never" /\ provOp = NoOp /\ provCalls = <<>> /\ provRet = OK
  /\ lexIn = <<>>
  /\ lexOp = "none" /\ lexDelim = ";" /\ lexStart = 0 /\ lexRes = NoRes
  /\ plugins = <<>> /\ plugOp = NoOp /\ plugTrace = <<>>
  /\ plugRet = OKs /\ wrapped = BaseDB
  /\ cfg = DefaultConfig /\ cfgCtx = DefaultCtx /\ cfgPc = "start"
  /\ opt_str = <<>> /\ peer = DefaultConfig /\ cfgStatus = OK
  /\ cfgMatches = FALSE
  /\ optCall = NoOp /\ optRes = NoRes
  /\ obj = NoObj /\ objOp = NoOp /\ objHist = <<>>

\* Round trip: the Configurable C and the context are drawn
InitConfig ==
  /\ cfg \in [s : StrVals, t : [x : StrVals],
              v : UNION {[1..n -> StrVals] : n \in 0..MaxVec}]
  /\ cfgCtx \in {[DefaultCtx EXCEPT !.input_strings_escaped = b] :
                   b \in BOOLEAN}
  /\ cfgPc = "start"
  /\ opt_str = <<>> /\ peer = DefaultConfig /\ cfgStatus = OK
  /\ cfgMatches = FALSE
  /\ optCall = NoOp /\ optRes = NoRes
  /\ lexIn = <<>>
  /\ lexOp = "none" /\ lexDelim = ";" /\ lexStart = 0 /\ lexRes = NoRes
  /\ plugins = <<>> /\ plugOp = NoOp /\ plugTrace = <<>>
  /\ plugRet = OKs /\ wrapped = BaseDB
  /\ cloud_opts = DefaultCloudOptions /\ status_ = OK /\ env_ = NullEnv
  /\ prepared = "never" /\ provOp = NoOp /\ provCalls = <<>> /\ provRet = OK
  /\ obj = NoObj /\ objOp = NoOp /\ objHist = <<>>

SpecLexer == InitLexer /\ [][LexNext]_vars

SpecPlugin == InitPlugin /\ [][PlugNext]_vars

SpecProvider == InitProvider /\ [][ProvNext]_vars

SpecConfig == InitConfig /\ [][CfgNext]_vars

\* Options engine: every call is made on freshly constructed arguments
InitOptions ==
  /\ optCall = NoOp /\ optRes = NoRes
  /\ lexIn = <<>>
  /\ lexOp = "none" /\ lexDelim = ";" /\ lexStart = 0 /\ lexRes = NoRes
  /\ plugins = <<>> /\ plugOp = NoOp /\ plugTrace = <<>>
  /\ plugRet = OKs /\ wrapped = BaseDB
  /\ cloud_opts = DefaultCloudOptions /\ status_ = OK /\ env_ = NullEnv
  /\ prepared = "never" /\ provOp = NoOp /\ provCalls = <<>> /\ provRet = OK
  /\ cfg = DefaultConfig /\ cfgCtx = DefaultCtx /\ cfgPc = "start"
  /\ opt_str = <<>> /\ peer = DefaultConfig /\ cfgStatus = OK
  /\ cfgMatches = FALSE
  /\ obj = NoObj /\ objOp = NoOp /\ objHist = <<>>

OptNext ==
  \/ CallGetOptionsFromString
  \/ CallParseStruct
  \/ CallParseVector
  \/ CallSerializeOption
  \/ CallSerializeStruct
  \/ CallMatchesOption
  \/ CallParseOption
  \/ CallEmbedded
  \/ CallCheckByName
  \/ CallCreateFromString
  \/ CallConfigure
  \/ CallConfigureAgain
  \/ CallGetDBOptionsFromMap
  \/ CallGetDBOptionsFromString
  \/ CallGetColumnFamilyOptionsFromMap
  \/ CallGetColumnFamilyOptionsFromString

SpecOptions == InitOptions /\ [][OptNext]_vars

\* Readable file: a file of any size after construction
InitReadable ==
  /\ obj \in {CloudStorageReadableFileImpl(file_size) : file_size \in 0..MaxObject}
  /\ objOp = NoOp /\ objHist = <<>>
  /\ optCall = NoOp /\ optRes = NoRes
  /\ lexIn = <<>>
  /\ lexOp = "none" /\ lexDelim = ";" /\ lexStart = 0 /\ lexRes = NoRes
  /\ plugins = <<>> /\ plugOp = NoOp /\ plugTrace = <<>>
  /\ plugRet = OKs /\ wrapped = BaseDB
  /\ cloud_opts = DefaultCloudOptions /\ status_ = OK /\ env_ = NullEnv
  /\ prepared = "never" /\ provOp = NoOp /\ provCalls = <<>> /\ provRet = OK
  /\ cfg = DefaultConfig /\ cfgCtx = DefaultCtx /\ cfgPc = "start"
  /\ opt_str = <<>> /\ peer = DefaultConfig /\ cfgStatus = OK
  /\ cfgMatches = FALSE

SpecReadable == InitReadable /\ [][ReadableNext]_vars

\* Writable file: an SST file or a manifest after construction, over any
\* directory and bucket and with any outcome of the constructor's calls
InitWritable ==
  /\ \E in \in OpenInputs :
       /\ obj = CloudStorageWritableFileImpl(in)
       /\ objHist = in
  /\ objOp = NoOp
  /\ optCall = NoOp /\ optRes = NoRes
  /\ lexIn = <<>>
  /\ lexOp = "none" /\ lexDelim = ";" /\ lexStart = 0 /\ lexRes = NoRes
  /\ plugins = <<>> /\ plugOp = NoOp /\ plugTrace = <<>>
  /\ plugRet = OKs /\ wrapped = BaseDB
  /\ cloud_opts = DefaultCloudOptions /\ status_ = OK /\ env_ = NullEnv
  /\ prepared = "never" /\ provOp = NoOp /\ provCalls = <<>> /\ provRet = OK
  /\ cfg = DefaultConfig /\ cfgCtx = DefaultCtx /\ cfgPc = "start"
  /\ opt_str = <<>> /\ peer = DefaultConfig /\ cfgStatus = OK
  /\ cfgMatches = FALSE

SpecWritable == InitWritable /\ [][WritableNext]_vars

\* GetObject: a directory with or without local_destination, and no
\* temporary file
InitGetObject ==
  /\ obj \in [kind : {"directory"}, dest : {NoFile, OldFile}, tmp : [RngValues -> {NoFile}]]
  /\ objOp = NoOp /\ objHist = <<>>
  /\ optCall = NoOp /\ optRes = NoRes
  /\ lexIn = <<>>
  /\ lexOp = "none" /\ lexDelim = ";" /\ lexStart = 0 /\ lexRes = NoRes
  /\ plugins = <<>> /\ plugOp = NoOp /\ plugTrace = <<>>
  /\ plugRet = OKs /\ wrapped = BaseDB
  /\ cloud_opts = DefaultCloudOptions /\ status_ = OK /\ env_ = NullEnv
  /\ prepared = "never" /\ provOp = NoOp /\ provCalls = <<>> /\ provRet = OK
  /\ cfg = DefaultConfig /\ cfgCtx = DefaultCtx /\ cfgPc = "start"
  /\ opt_str = <<>> /\ peer = DefaultConfig /\ cfgStatus = OK
  /\ cfgMatches = FALSE

SpecGetObject == InitGetObject /\ [][CallGetObject]_vars

\* Loggers after construction; no Close has been called
InitLogger ==
  /\ obj = [l \in Loggers |-> NewLogger]
  /\ objOp = NoOp
  /\ objHist = [l \in Loggers |-> [calls |-> 0, impl |-> <<>>]]
  /\ optCall = NoOp /\ optRes = NoRes
  /\ lexIn = <<>>
  /\ lexOp = "none" /\ lexDelim = ";" /\ lexStart = 0 /\ lexRes = NoRes
  /\ plugins = <<>> /\ plugOp = NoOp /\ plugTrace = <<>>
  /\ plugRet = OKs /\ wrapped = BaseDB
  /\ cloud_opts = DefaultCloudOptions /\ status_ = OK /\ env_ = NullEnv
  /\ prepared = "never" /\ provOp = NoOp /\ provCalls = <<>> /\ provRet = OK
  /\ cfg = DefaultConfig /\ cfgCtx = DefaultCtx /\ cfgPc = "start"
  /\ opt_str = <<>> /\ peer = DefaultConfig /\ cfgStatus = OK
  /\ cfgMatches = FALSE

SpecLogger == InitLogger /\ [][CallLoggerClose]_vars

====
